---- MODULE Spec2Model ----
(***************************************************************************)
(* opencost-cloudcost-exporter: the in-memory cost cache (pkg/cache) and   *)
(* the Prometheus collector that reads it on every scrape, refreshes it    *)
(* in the background while it is stale and fetches synchronously when it   *)
(* is empty or expired (pkg/collector).                                    *)
(*                                                                         *)
(* Time is a discrete clock.  A snapshot is identified by the number of    *)
(* the FetchCloudCosts call that returned it, so every fetch returns a     *)
(* distinct snapshot.                                                      *)
(***************************************************************************)
EXTENDS Integers, Sequences, FiniteSets, TLC

\* ---------------------------------------------------------------- bounds
NumScrapers == 2
MaxGoroutines == 2
MaxTime == 3
MaxTtl == 1
MaxStaleWindow == 1
MaxScrapes == 4
NumCallers == 2
MaxCalls == 2
MaxNegTtl == 1
MaxRetries == 2
MaxSets == 2
MaxEmitSets == 1
MaxEmitScrapes == 2
MantissaBits == 2

\* ------------------------------------------------------------- constants
Nil == 0
ZeroTime == 0
StartTime == 1
DefaultMaxRetries == 3
\* http.StatusOK, http.StatusNoContent, http.StatusInternalServerError,
\* http.StatusServiceUnavailable
StatusOK == 200
StatusNoContent == 204
StatusInternalServerError == 500
StatusServiceUnavailable == 503

Scrapers == 1..NumScrapers
Goroutines == (NumScrapers + 1)..(NumScrapers + MaxGoroutines)
Threads == Scrapers \cup Goroutines
\* goroutines that call the methods of Cache directly
Callers == 1..NumCallers

VARIABLES
    ttl,              \* Cache.ttl
    maxStale,         \* Cache.maxStale
    now,              \* the clock read by time.Now / time.Since
    cache,            \* Cache: data, fetchedAt, hits, misses
    cacheMu,          \* Cache.mu: the thread holding the write lock, or Nil
    mu,               \* CloudCostCollector.mu: the scraper or goroutine holding it, or Nil
    refreshing,       \* CloudCostCollector.refreshing
    metrics,          \* scrapeErrors, cacheHits, cacheMisses, cacheAge, lastSuccessfulScrape
    pc,               \* position of every scraper and refresh goroutine
    got,              \* Collect's locals data, isStale, ok (per scraper)
    fetch,            \* per thread: the number of its FetchCloudCosts call
    sawRefreshing,    \* per scraper: c.refreshing as its Collect found it
    seen,             \* per scraper: the entry its Get read and the age it had
    last,             \* the Collect call that returned last: what it read and emitted
    stampOf,          \* per snapshot: the time its Set stamped, or ZeroTime
    fetchesStarted,   \* number of FetchCloudCosts calls started
    scrapesStarted,   \* number of Collect calls started
    readers,          \* Cache.mu: the callers holding the read lock
    at,               \* per caller: its position in the Cache method it runs, or "idle"
    local,            \* per caller: Set's argument data, Stats' first result
    ret,              \* the Cache method call that returned last, and what it returned
    calls,            \* Cache method calls so far: started, Gets, Sets, the last Set
    maxRetries,       \* Client.maxRetries
    urlOk,            \* whether Client.baseURL parses
    ctx,              \* the caller's context: NilErr, or the error ctx.Err() returns
    cpc,              \* position of the FetchCloudCosts call
    attempt,          \* FetchCloudCosts: the loop variable attempt
    lastErr,          \* FetchCloudCosts: lastErr
    result,           \* what FetchCloudCosts returned, and ctx.Err() at that moment
    requests,         \* number of requests sent to the upstream
    outcomes,         \* how each doFetch call ended, in order
    waits,            \* the backoff waits that elapsed, in order
    ctxAtCall,        \* ctx.Err() when FetchCloudCosts was called
    response,         \* what the last doFetch call got from httpClient.Do and io.ReadAll
    snapshot,         \* emitCostMetrics: data.Data.Sets
    varied,           \* the property in which the items of the snapshot differ
    apc,              \* position of the emitCostMetrics call
    setIdx,           \* emitCostMetrics: the set being ranged over (from 1)
    todo,             \* keys of the map being ranged over not yet iterated
    aggregated,       \* emitCostMetrics: the map aggregated
    processed,        \* the items iterated so far, in order
    ch,               \* the metrics emitCostMetrics has sent to ch, in order
    previous,         \* what the emitCostMetrics call before this one produced
    emitKubePercentMetrics, \* CloudCostCollector.emitKubePercentMetrics
    fx,               \* currencySymbols, and the FetchExchangeRates calls made
    reachable,        \* whether OpenCost answers /healthz with 200
    readyz            \* the last answer of readyzHandler, and what held then

vars == <<ttl, maxStale, now, cache, cacheMu, mu, refreshing, metrics, pc, got,
          fetch, sawRefreshing, seen, last, stampOf, fetchesStarted,
          scrapesStarted, readers, at, local, ret, calls, maxRetries, urlOk,
          ctx, cpc, attempt, lastErr, result, requests, outcomes, waits,
          ctxAtCall, response, snapshot, varied, apc, setIdx, todo,
          aggregated, processed, ch, previous, emitKubePercentMetrics, fx,
          reachable, readyz>>

config == <<ttl, maxStale>>
ghost == <<sawRefreshing, seen, last, stampOf>>
collector == <<mu, refreshing, metrics, pc, got, fetch, ghost, fetchesStarted,
               scrapesStarted>>
cacheApi == <<readers, at, local, ret, calls>>
clientCall == <<maxRetries, urlOk, ctx, cpc, attempt, lastErr, result, requests,
                outcomes, waits, ctxAtCall, response>>
emission == <<ch, previous, emitKubePercentMetrics, fx>>
aggregation == <<snapshot, varied, apc, setIdx, todo, aggregated, processed,
                 emission>>
health == <<reachable, readyz>>
components == <<cacheApi, clientCall, aggregation, health>>

\* ------------------------------------------------------------ pkg/cache

Miss == [data |-> Nil, isStale |-> FALSE, ok |-> FALSE]

\* a scraper that has not called Get
NotRead == [data |-> Nil, age |-> 0]

\* Get with the freshness test `age < c.ttl`: the boundary age = ttl is stale.
GetStrictTtl(c, t) ==
    IF c.data = Nil THEN Miss
    ELSE LET age == t - c.fetchedAt IN
         IF age < ttl THEN [data |-> c.data, isStale |-> FALSE, ok |-> TRUE]
         ELSE IF age <= ttl + maxStale
              THEN [data |-> c.data, isStale |-> TRUE, ok |-> TRUE]
              ELSE Miss

\* Get without the max-stale test: a populated entry past ttl is stale for ever.
GetNoExpiry(c, t) ==
    IF c.data = Nil THEN Miss
    ELSE LET age == t - c.fetchedAt IN
         IF age <= ttl THEN [data |-> c.data, isStale |-> FALSE, ok |-> TRUE]
         ELSE [data |-> c.data, isStale |-> TRUE, ok |-> TRUE]

\* Cache.Get: the three-way classification of the entry c read at time t.
Get(c, t) ==
    IF c.data = Nil THEN Miss
    ELSE LET age == t - c.fetchedAt IN
         IF age <= ttl THEN [data |-> c.data, isStale |-> FALSE, ok |-> TRUE]
         ELSE IF age <= ttl + maxStale
              THEN [data |-> c.data, isStale |-> TRUE, ok |-> TRUE]
              ELSE Miss


\* Get counting every call as a hit.
CountHits(c, r) == [c EXCEPT !.hits = @ + 1]

\* Get without the c.misses.Add(1) of its two absent results.
CountHitsOnly(c, r) == IF r.ok THEN [c EXCEPT !.hits = @ + 1] ELSE c

\* Get counting a stale result as a miss.
CountStaleAsMiss(c, r) ==
    IF r.ok /\ ~r.isStale THEN [c EXCEPT !.hits = @ + 1] ELSE [c EXCEPT !.misses = @ + 1]

\* Cache.Get: the hit / miss counter it bumps.
Count(c, r) ==
    IF r.ok THEN [c EXCEPT !.hits = @ + 1] ELSE [c EXCEPT !.misses = @ + 1]

\* Cache.Age
Age(c, t) == IF c.data = Nil THEN 0 ELSE t - c.fetchedAt


\* IsPopulated answering for the entry Get would still return.
IsPopulatedWhileUsable(c) == c.data # Nil /\ now - c.fetchedAt <= ttl + maxStale

\* Cache.IsPopulated
IsPopulated(c) == c.data # Nil

\* Get and Age without the read lock.
RLockSkipped == TRUE

\* c.mu.RLock(): a reader enters only while no writer holds the lock.
RLock == cacheMu = Nil

\* one lock for the collector and the cache: Set needs c.mu of the
\* collector free as well
LockMerged == cacheMu = Nil /\ mu = Nil

\* c.mu.Lock(): readers hold the lock only within one step, so the writer
\* waits for another writer only.
Lock == cacheMu = Nil

\* ------------------------------------------------------- pkg/collector

FreeGoroutines == {g \in Goroutines : pc[g] = "free"}

\* the goroutine slot taken by `go func() {...}()`
NextGoroutine == CHOOSE g \in FreeGoroutines : \A h \in FreeGoroutines : g <= h

\* Collect with the test `if isStale`, the flag not consulted.
StartsRefreshUnguarded(r) == r.ok /\ r.isStale

\* Collect refreshing on every hit, fresh or stale.
StartsRefreshOnHit(r) == r.ok /\ ~refreshing

\* Collect: `if isStale && !c.refreshing`
StartsRefresh(r) == r.ok /\ r.isStale /\ ~refreshing

\* Collect is entered.
CollectCall(s) ==
    /\ pc[s] = "idle"
    /\ scrapesStarted < MaxScrapes
    /\ pc' = [pc EXCEPT ![s] = "lock"]
    /\ scrapesStarted' = scrapesStarted + 1
    /\ UNCHANGED <<config, components, now, cache, cacheMu, mu, refreshing, metrics, got,
                   fetch, ghost, fetchesStarted>>

\* Collect without c.mu: the calls are not serialized
MuLockSkipped == TRUE

\* c.mu.Lock() of the collector: it is free
MuLock == mu = Nil

\* Collect: c.mu.Lock()
CollectLock(s) ==
    /\ pc[s] = "lock"
    /\ MuLock
    /\ mu' = s
    /\ pc' = [pc EXCEPT ![s] = "get"]
    /\ UNCHANGED <<config, components, now, cache, cacheMu, refreshing, metrics, got,
                   fetch, ghost, fetchesStarted, scrapesStarted>>

\* Collect: c.cache.Get() and the branch on its result.
CollectGet(s) ==
    /\ pc[s] = "get"
    /\ RLock
    /\ LET r == Get(cache, now) IN
       /\ cache' = Count(cache, r)
       /\ got' = [got EXCEPT ![s] = r]
       /\ seen' = [seen EXCEPT ![s] = [data |-> cache.data, age |-> Age(cache, now)]]
       /\ sawRefreshing' = [sawRefreshing EXCEPT ![s] = refreshing]
       /\ IF r.ok
          THEN /\ metrics' = [metrics EXCEPT !.cacheHits = @ + 1]
               /\ IF StartsRefresh(r)
                  THEN /\ FreeGoroutines # {}
                       /\ refreshing' = TRUE
                       /\ pc' = [pc EXCEPT ![s] = "age", ![NextGoroutine] = "call"]
                  ELSE /\ pc' = [pc EXCEPT ![s] = "age"]
                       /\ UNCHANGED refreshing
          ELSE /\ metrics' = [metrics EXCEPT !.cacheMisses = @ + 1]
               /\ pc' = [pc EXCEPT ![s] = "call"]
               /\ UNCHANGED refreshing
    /\ UNCHANGED <<config, components, now, cacheMu, mu, fetch, last, stampOf,
                   fetchesStarted, scrapesStarted>>

\* fetchAndCache: c.client.FetchCloudCosts(ctx) is called.
FetchStart(t) ==
    /\ pc[t] = "call"
    /\ fetchesStarted' = fetchesStarted + 1
    /\ fetch' = [fetch EXCEPT ![t] = fetchesStarted + 1]
    /\ pc' = [pc EXCEPT ![t] = "fetching"]
    /\ UNCHANGED <<config, components, now, cache, cacheMu, mu, refreshing, metrics, got,
                   ghost, scrapesStarted>>

\* the refresh goroutine ending after refreshCache, the flag left set.
AfterFetchFlagLeft(t) == IF t \in Scrapers THEN "age" ELSE "free"

\* where a thread continues when fetchAndCache returns: Collect goes on to
\* the self-observability metrics, the refresh goroutine to clearing the flag.
AfterFetch(t) == IF t \in Scrapers THEN "age" ELSE "clear"

\* the result of every fetchAndCache call, the refresh goroutine's too,
\* handed to the Collect calls in progress
ReturnedToScrapes(t, d) ==
    [s \in Scrapers |-> IF pc[s] = "idle" THEN got[s] ELSE [got[s] EXCEPT !.data = d]]

\* fetchAndCache receives Collect's result
Returned(t, d) == IF t \in Scrapers THEN [got EXCEPT ![t].data = d] ELSE got

\* fetchAndCache returning on an error without counting it.
FetchFailUncounted(t) ==
    /\ pc[t] = "fetching"
    /\ got' = Returned(t, Nil)
    /\ pc' = [pc EXCEPT ![t] = AfterFetch(t)]
    /\ UNCHANGED <<config, components, now, cache, cacheMu, mu, refreshing, metrics, fetch,
                   ghost, fetchesStarted, scrapesStarted>>

\* fetchAndCache keeping the entry alive on an error: it stamps the old
\* snapshot with the time of the failed fetch.
FetchFailRestamps(t) ==
    /\ pc[t] = "fetching"
    /\ metrics' = [metrics EXCEPT !.scrapeErrors = @ + 1]
    /\ cache' = [cache EXCEPT !.fetchedAt = now]
    /\ got' = Returned(t, Nil)
    /\ pc' = [pc EXCEPT ![t] = AfterFetch(t)]
    /\ UNCHANGED <<config, components, now, cacheMu, mu, refreshing, fetch, ghost,
                   fetchesStarted, scrapesStarted>>

\* fetchAndCache: FetchCloudCosts returns an error.
FetchFail(t) ==
    /\ pc[t] = "fetching"
    /\ metrics' = [metrics EXCEPT !.scrapeErrors = @ + 1]
    /\ got' = Returned(t, Nil)
    /\ pc' = [pc EXCEPT ![t] = AfterFetch(t)]
    /\ UNCHANGED <<config, components, now, cache, cacheMu, mu, refreshing, fetch, ghost,
                   fetchesStarted, scrapesStarted>>

\* fetchAndCache: FetchCloudCosts returns a snapshot.
FetchOk(t) ==
    /\ pc[t] = "fetching"
    /\ pc' = [pc EXCEPT ![t] = "setlock"]
    /\ UNCHANGED <<config, components, now, cache, cacheMu, mu, refreshing, metrics, got,
                   fetch, ghost, fetchesStarted, scrapesStarted>>

\* Cache.Set: c.mu.Lock()
SetLock(t) ==
    /\ pc[t] = "setlock"
    /\ Lock
    /\ cacheMu' = t
    /\ pc' = [pc EXCEPT ![t] = "setdata"]
    /\ UNCHANGED <<config, components, now, cache, mu, refreshing, metrics, got, fetch,
                   ghost, fetchesStarted, scrapesStarted>>

\* Cache.Set: c.data = data
SetData(t) ==
    /\ pc[t] = "setdata"
    /\ cache' = [cache EXCEPT !.data = fetch[t]]
    /\ pc' = [pc EXCEPT ![t] = "setstamp"]
    /\ UNCHANGED <<config, components, now, cacheMu, mu, refreshing, metrics, got, fetch,
                   ghost, fetchesStarted, scrapesStarted>>

\* Cache.Set: c.fetchedAt = time.Now() and the deferred Unlock; then
\* fetchAndCache: lastSuccessfulScrape.SetToCurrentTime() and return data.
SetStamp(t) ==
    /\ pc[t] = "setstamp"
    /\ cache' = [cache EXCEPT !.fetchedAt = now]
    /\ cacheMu' = Nil
    /\ stampOf' = [stampOf EXCEPT ![fetch[t]] = now]
    /\ metrics' = [metrics EXCEPT !.lastSuccessfulScrape = now]
    /\ got' = Returned(t, fetch[t])
    /\ pc' = [pc EXCEPT ![t] = AfterFetch(t)]
    /\ UNCHANGED <<config, components, now, mu, refreshing, fetch, sawRefreshing, seen,
                   last, fetchesStarted, scrapesStarted>>

\* Collect waiting for the refresh it started before it emits.
CanEmitAfterRefresh(s) == RLock /\ ~refreshing

\* Collect, after the branch: nothing waits for the refresh goroutine;
\* c.cache.Age() takes the cache's read lock.
CanEmit(s) == RLock

\* Collect returns: its locals are gone, the deferred c.mu.Unlock() runs.
Return(s) ==
    /\ pc' = [pc EXCEPT ![s] = "idle"]
    /\ mu' = Nil
    /\ got' = [got EXCEPT ![s] = Miss]
    /\ fetch' = [fetch EXCEPT ![s] = Nil]
    /\ seen' = [seen EXCEPT ![s] = NotRead]
    /\ sawRefreshing' = [sawRefreshing EXCEPT ![s] = FALSE]
    /\ last' = [data |-> got[s].data, ok |-> got[s].ok, isStale |-> got[s].isStale,
                sawRefreshing |-> sawRefreshing[s]]

\* Collect: cacheAge.Set(c.cache.Age()), the self-observability metrics,
\* `if data == nil { return }`, emitCostMetrics.
CollectEmit(s) ==
    /\ pc[s] = "age"
    /\ CanEmit(s)
    /\ metrics' = [metrics EXCEPT !.cacheAge = Age(cache, now)]
    /\ IF got[s].data = Nil
       THEN Return(s)
       ELSE /\ pc' = [pc EXCEPT ![s] = "fx"]
            /\ UNCHANGED <<mu, got, fetch, ghost>>
    /\ UNCHANGED <<config, components, now, cache, cacheMu, refreshing, stampOf,
                   fetchesStarted, scrapesStarted>>

\* Collect: emitExchangeRates returns, then Collect does.
CollectReturn(s) ==
    /\ pc[s] = "fx"
    /\ Return(s)
    /\ UNCHANGED <<config, components, now, cache, cacheMu, refreshing, metrics, stampOf,
                   fetchesStarted, scrapesStarted>>

\* the refresh goroutine after refreshCache:
\* c.mu.Lock(); c.refreshing = false; c.mu.Unlock()
ClearRefreshing(g) ==
    /\ pc[g] = "clear"
    /\ mu = Nil
    /\ refreshing' = FALSE
    /\ pc' = [pc EXCEPT ![g] = "free"]
    /\ fetch' = [fetch EXCEPT ![g] = Nil]
    /\ UNCHANGED <<config, components, now, cache, cacheMu, mu, metrics, got, ghost,
                   fetchesStarted, scrapesStarted>>

\* time passes
Tick ==
    /\ now < MaxTime
    /\ now' = now + 1
    /\ UNCHANGED <<config, components, cache, cacheMu, mu, refreshing, metrics, pc, got,
                   fetch, ghost, fetchesStarted, scrapesStarted>>

\* ------------------------------------------------------- specification

\* what a Cache method call returns when none has returned yet
NoReturn == [op |-> "none", data |-> Nil, isStale |-> FALSE, ok |-> FALSE,
             age |-> 0, hits |-> 0, misses |-> 0, populated |-> FALSE,
             sets |-> 0, set |-> Nil, since |-> 0]

\* ctx.Err() of a context that is not done
NilErr == "nil"

\* an error value: what it says, the number it names, the error it wraps
NoErr == [kind |-> "nil", n |-> 0, cause |-> "nil"]

\* no request has been answered
NoResponse == [err |-> "nil", status |-> 0, body |-> ""]

\* what FetchCloudCosts has returned before it is called
NoResult == [data |-> Nil, err |-> NoErr, ctx |-> NilErr]

\* client.New(baseURL, ...) as main.go calls it; FetchCloudCosts not called
NoClientCall ==
    /\ maxRetries = DefaultMaxRetries
    /\ urlOk = TRUE
    /\ ctx = NilErr
    /\ cpc = "idle"
    /\ attempt = 0
    /\ lastErr = NoErr
    /\ result = NoResult
    /\ requests = 0
    /\ outcomes = <<>>
    /\ waits = <<>>
    /\ ctxAtCall = NilErr
    /\ response = NoResponse

\* make(map[costKey]*aggregatedCost)
NoEntries == [k \in {} |-> Nil]

\* no call of emitCostMetrics has returned
NoPass == [done |-> FALSE, aggregated |-> NoEntries, ch |-> <<>>]

\* currencySymbols as collector.New sets them
DefaultSymbols == {"CNY", "EUR"}

\* emitExchangeRates has not been called
NoRates(symbols) == [symbols |-> symbols, calls |-> 0, err |-> FALSE]

\* nothing is sent to ch; collector.New without options
NoEmission ==
    /\ ch = <<>>
    /\ previous = NoPass
    /\ emitKubePercentMetrics = FALSE
    /\ fx = NoRates(DefaultSymbols)

\* readyzHandler has not answered
NoAnswer == [status |-> 0, body |-> "", populated |-> FALSE, reachable |-> FALSE]

\* OpenCost is up and /readyz has not been asked
NoProbe ==
    /\ reachable = TRUE
    /\ readyz = NoAnswer

\* emitCostMetrics is not called
NoAggregation ==
    /\ NoEmission
    /\ NoProbe
    /\ snapshot = <<>>
    /\ varied = "none"
    /\ apc = "idle"
    /\ setIdx = 0
    /\ todo = {}
    /\ aggregated = NoEntries
    /\ processed = <<>>

\* the empty cache and the collector as collector.New leaves them, no scrape
\* running
CollectorIdle ==
    /\ now = StartTime
    /\ cache = [data |-> Nil, fetchedAt |-> ZeroTime, hits |-> 0, misses |-> 0]
    /\ cacheMu = Nil
    /\ mu = Nil
    /\ refreshing = FALSE
    /\ metrics = [scrapeErrors |-> 0, cacheHits |-> 0, cacheMisses |-> 0,
                  cacheAge |-> 0, lastSuccessfulScrape |-> ZeroTime]
    /\ pc = [t \in Threads |-> IF t \in Scrapers THEN "idle" ELSE "free"]
    /\ got = [s \in Scrapers |-> Miss]
    /\ fetch = [t \in Threads |-> Nil]
    /\ sawRefreshing = [s \in Scrapers |-> FALSE]
    /\ seen = [s \in Scrapers |-> NotRead]
    /\ last = [data |-> Nil, ok |-> FALSE, isStale |-> FALSE, sawRefreshing |-> FALSE]
    /\ stampOf = [i \in 1..MaxScrapes |-> ZeroTime]
    /\ fetchesStarted = 0
    /\ scrapesStarted = 0

\* no goroutine is calling the cache directly
NoCacheCalls ==
    /\ readers = {}
    /\ at = [c \in Callers |-> "idle"]
    /\ local = [c \in Callers |-> Nil]
    /\ ret = NoReturn
    /\ calls = [n |-> 0, getCalls |-> 0, gets |-> 0, sets |-> 0, lastSet |-> Nil,
                setAt |-> ZeroTime]

\* cache.New(ttl, maxStale) and collector.New(client, cache)
Init ==
    /\ ttl \in 0..MaxTtl
    /\ maxStale \in 0..MaxStaleWindow
    /\ now = StartTime
    /\ cache = [data |-> Nil, fetchedAt |-> ZeroTime, hits |-> 0, misses |-> 0]
    /\ cacheMu = Nil
    /\ mu = Nil
    /\ refreshing = FALSE
    /\ metrics = [scrapeErrors |-> 0, cacheHits |-> 0, cacheMisses |-> 0,
                  cacheAge |-> 0, lastSuccessfulScrape |-> ZeroTime]
    /\ pc = [t \in Threads |-> IF t \in Scrapers THEN "idle" ELSE "free"]
    /\ got = [s \in Scrapers |-> Miss]
    /\ fetch = [t \in Threads |-> Nil]
    /\ sawRefreshing = [s \in Scrapers |-> FALSE]
    /\ seen = [s \in Scrapers |-> NotRead]
    /\ last = [data |-> Nil, ok |-> FALSE, isStale |-> FALSE, sawRefreshing |-> FALSE]
    /\ stampOf = [i \in 1..MaxScrapes |-> ZeroTime]
    /\ fetchesStarted = 0
    /\ scrapesStarted = 0
    /\ NoCacheCalls
    /\ NoClientCall
    /\ NoAggregation

Next ==
    \/ \E s \in Scrapers : CollectCall(s)
    \/ \E s \in Scrapers : CollectLock(s)
    \/ \E s \in Scrapers : CollectGet(s)
    \/ \E t \in Threads : FetchStart(t)
    \/ \E t \in Threads : FetchFail(t)
    \/ \E t \in Threads : FetchOk(t)
    \/ \E t \in Threads : SetLock(t)
    \/ \E t \in Threads : SetData(t)
    \/ \E t \in Threads : SetStamp(t)
    \/ \E s \in Scrapers : CollectEmit(s)
    \/ \E s \in Scrapers : CollectReturn(s)
    \/ \E g \in Goroutines : ClearRefreshing(g)
    \/ Tick

Spec == Init /\ [][Next]_vars

\* The first scrape has filled the cache and returned, the entry has just
\* turned stale, and two scrapers have called Collect.
Seeded == [data |-> 1, fetchedAt |-> StartTime, hits |-> 0, misses |-> 1]

InitStale ==
    /\ ttl \in 0..MaxTtl
    /\ maxStale \in 1..MaxStaleWindow
    /\ now = StartTime + ttl + 1
    /\ cache = Seeded
    /\ cacheMu = Nil
    /\ mu = Nil
    /\ refreshing = FALSE
    /\ metrics = [scrapeErrors |-> 0, cacheHits |-> 0, cacheMisses |-> 1,
                  cacheAge |-> 0, lastSuccessfulScrape |-> StartTime]
    /\ pc = [t \in Threads |-> IF t \in Goroutines THEN "free"
                                ELSE IF t <= 2 THEN "lock" ELSE "idle"]
    /\ got = [s \in Scrapers |-> Miss]
    /\ fetch = [t \in Threads |-> Nil]
    /\ sawRefreshing = [s \in Scrapers |-> FALSE]
    /\ seen = [s \in Scrapers |-> NotRead]
    /\ last = [data |-> Seeded.data, ok |-> FALSE, isStale |-> FALSE,
               sawRefreshing |-> FALSE]
    /\ stampOf = [i \in 1..MaxScrapes |-> IF i = Seeded.data THEN StartTime ELSE ZeroTime]
    /\ fetchesStarted = 1
    /\ scrapesStarted = 3
    /\ NoCacheCalls
    /\ NoClientCall
    /\ NoAggregation

SpecStale == InitStale /\ [][Next]_vars

\* the steps of a Collect that has read its snapshot, and of a Set in progress
ServeStep ==
    \/ \E s \in Scrapers : CollectEmit(s) \/ CollectReturn(s)
    \/ \E t \in Threads : SetData(t) \/ SetStamp(t)

\* A Collect that has its snapshot emits and returns (emitExchangeRates is
\* bounded by its 10 s context) and a thread holding the cache's write lock
\* finishes Set.  Nothing is assumed of FetchCloudCosts or of the refresh
\* goroutine: the fetch need not ever return.
ScrapeFair == Spec /\ WF_vars(ServeStep)

\* every step but the arrival of a scrape and the passage of time
RunStep ==
    \/ \E s \in Scrapers : CollectLock(s) \/ CollectGet(s) \/ CollectEmit(s) \/ CollectReturn(s)
    \/ \E t \in Threads : FetchStart(t) \/ FetchFail(t) \/ FetchOk(t)
    \/ \E t \in Threads : SetLock(t) \/ SetData(t) \/ SetStamp(t)
    \/ \E g \in Goroutines : ClearRefreshing(g)

\* The threads keep running and every FetchCloudCosts call returns (its
\* retries are bounded and its context expires after 30 s).  Whether another
\* scrape arrives and how much time passes is left open.
LiveSpec == Spec /\ WF_vars(RunStep)

TypeOK ==
    /\ now \in StartTime..MaxTime
    /\ mu \in Scrapers \cup {Nil}
    /\ cacheMu \in Threads \cup {Nil}
    /\ refreshing \in BOOLEAN
    /\ fetchesStarted <= scrapesStarted
    /\ scrapesStarted <= MaxScrapes

\* ------------------------------------------------- pkg/cache, called directly

\* the methods of Cache
Methods == {"Get", "Set", "Age", "Stats", "IsPopulated"}

\* a goroutine calls one of the methods of Cache; every Set is given a
\* snapshot of its own, identified by the number of the call
CacheCall(c) ==
    /\ at[c] = "idle"
    /\ calls.n < MaxCalls
    /\ \E m \in Methods :
        /\ at' = [at EXCEPT ![c] = m]
        /\ local' = [local EXCEPT ![c] = IF m = "Set" THEN calls.n + 1 ELSE Nil]
        /\ calls' = [calls EXCEPT !.n = @ + 1,
                                  !.getCalls = IF m = "Get" THEN @ + 1 ELSE @]
    /\ UNCHANGED <<config, clientCall, aggregation, health, collector, now, cache, cacheMu, readers, ret>>

\* Get, Age, IsPopulated: c.mu.RLock().  A writer that holds or waits for
\* the lock keeps new readers out.
CacheRLock(c) ==
    /\ at[c] \in {"Get", "Age", "IsPopulated"}
    /\ RLock
    /\ readers' = readers \cup {c}
    /\ at' = [at EXCEPT ![c] = at[c] \o ":locked"]
    /\ UNCHANGED <<config, clientCall, aggregation, health, collector, now, cache, cacheMu, local, ret, calls>>

\* what the call that returns observes of the Sets made so far
Observed == [sets |-> calls.sets, set |-> calls.lastSet,
             since |-> IF calls.sets = 0 THEN 0 ELSE now - calls.setAt]

\* Get: the body, the counter and the deferred RUnlock.
CacheGet(c) ==
    /\ at[c] = "Get:locked"
    /\ LET r == Get(cache, now) IN
       /\ cache' = Count(cache, r)
       /\ ret' = [NoReturn EXCEPT !.op = "Get", !.data = r.data,
                                  !.isStale = r.isStale, !.ok = r.ok,
                                  !.sets = Observed.sets, !.set = Observed.set,
                               !.since = Observed.since]
    /\ calls' = [calls EXCEPT !.gets = @ + 1]
    /\ readers' = readers \ {c}
    /\ at' = [at EXCEPT ![c] = "idle"]
    /\ UNCHANGED <<config, clientCall, aggregation, health, collector, now, cacheMu, local>>

\* Age: the body and the deferred RUnlock.
CacheAge(c) ==
    /\ at[c] = "Age:locked"
    /\ ret' = [NoReturn EXCEPT !.op = "Age", !.age = Age(cache, now),
                               !.sets = Observed.sets, !.set = Observed.set,
                               !.since = Observed.since]
    /\ readers' = readers \ {c}
    /\ at' = [at EXCEPT ![c] = "idle"]
    /\ UNCHANGED <<config, clientCall, aggregation, health, collector, now, cache, cacheMu, local, calls>>

\* IsPopulated: the body and the deferred RUnlock.
CacheIsPopulated(c) ==
    /\ at[c] = "IsPopulated:locked"
    /\ ret' = [NoReturn EXCEPT !.op = "IsPopulated", !.populated = IsPopulated(cache),
                               !.sets = Observed.sets, !.set = Observed.set,
                               !.since = Observed.since]
    /\ readers' = readers \ {c}
    /\ at' = [at EXCEPT ![c] = "idle"]
    /\ UNCHANGED <<config, clientCall, aggregation, health, collector, now, cache, cacheMu, local, calls>>

\* Stats: c.hits.Load()
CacheStatsHits(c) ==
    /\ at[c] = "Stats"
    /\ local' = [local EXCEPT ![c] = cache.hits]
    /\ at' = [at EXCEPT ![c] = "Stats:misses"]
    /\ UNCHANGED <<config, clientCall, aggregation, health, collector, now, cache, cacheMu, readers, ret, calls>>

\* Stats: c.misses.Load() and return
CacheStatsMisses(c) ==
    /\ at[c] = "Stats:misses"
    /\ ret' = [NoReturn EXCEPT !.op = "Stats", !.hits = local[c],
                               !.misses = cache.misses,
                               !.sets = Observed.sets, !.set = Observed.set,
                               !.since = Observed.since]
    /\ local' = [local EXCEPT ![c] = Nil]
    /\ at' = [at EXCEPT ![c] = "idle"]
    /\ UNCHANGED <<config, clientCall, aggregation, health, collector, now, cache, cacheMu, readers, calls>>

\* Set: c.mu.Lock() gets the writer's turn; from now on no reader enters.
CacheSetLock(c) ==
    /\ at[c] = "Set"
    /\ Lock
    /\ cacheMu' = c
    /\ at' = [at EXCEPT ![c] = "Set:data"]
    /\ UNCHANGED <<config, clientCall, aggregation, health, collector, now, cache, readers, local, ret, calls>>

\* Set: c.mu.Lock() returns once the readers have left; c.data = data
CacheSetData(c) ==
    /\ at[c] = "Set:data"
    /\ readers = {}
    /\ cache' = [cache EXCEPT !.data = local[c]]
    /\ at' = [at EXCEPT ![c] = "Set:stamp"]
    /\ UNCHANGED <<config, clientCall, aggregation, health, collector, now, cacheMu, readers, local, ret, calls>>

\* Set: c.fetchedAt = time.Now() and the deferred Unlock
CacheSetStamp(c) ==
    /\ at[c] = "Set:stamp"
    /\ cache' = [cache EXCEPT !.fetchedAt = now]
    /\ cacheMu' = Nil
    /\ calls' = [calls EXCEPT !.sets = @ + 1, !.lastSet = local[c], !.setAt = now]
    /\ ret' = [NoReturn EXCEPT !.op = "Set", !.data = local[c],
                               !.sets = calls.sets + 1, !.set = local[c]]
    /\ local' = [local EXCEPT ![c] = Nil]
    /\ at' = [at EXCEPT ![c] = "idle"]
    /\ UNCHANGED <<config, clientCall, aggregation, health, collector, now, readers>>

\* cache.New(ttl, maxStale) with the durations the flags --cache-ttl and
\* --max-stale accept (flag.Duration takes a negative duration), and the
\* collector not running.
InitCache ==
    /\ ttl \in (0 - MaxNegTtl)..MaxTtl
    /\ maxStale \in 0..MaxStaleWindow
    /\ CollectorIdle
    /\ NoCacheCalls
    /\ NoClientCall
    /\ NoAggregation

NextCache ==
    \/ \E c \in Callers : CacheCall(c)
    \/ \E c \in Callers : CacheRLock(c)
    \/ \E c \in Callers : CacheGet(c)
    \/ \E c \in Callers : CacheAge(c)
    \/ \E c \in Callers : CacheIsPopulated(c)
    \/ \E c \in Callers : CacheStatsHits(c)
    \/ \E c \in Callers : CacheStatsMisses(c)
    \/ \E c \in Callers : CacheSetLock(c)
    \/ \E c \in Callers : CacheSetData(c)
    \/ \E c \in Callers : CacheSetStamp(c)
    \/ Tick

SpecCache == InitCache /\ [][NextCache]_vars

\* every step of a method call that has been made
CacheStep ==
    \E c \in Callers :
        \/ CacheRLock(c) \/ CacheGet(c) \/ CacheAge(c) \/ CacheIsPopulated(c)
        \/ CacheStatsHits(c) \/ CacheStatsMisses(c)
        \/ CacheSetLock(c) \/ CacheSetData(c) \/ CacheSetStamp(c)

\* one configuration in which an entry passes through every class; the
\* locks and the counters never read ttl or maxStale
InitLocking == InitCache /\ ttl = 0 /\ maxStale = MaxStaleWindow

\* The goroutines inside a method keep running; which calls are made and how
\* much time passes is left open.
CacheFair == InitLocking /\ [][NextCache]_vars /\ WF_vars(CacheStep)

\* ---------------------------------------------------------------- claims

\* every refresh goroutine between `go func()` and its exit
InFlight == {g \in Goroutines : pc[g] # "free"}

\* every thread inside c.client.FetchCloudCosts
Fetching == {t \in Threads : pc[t] = "fetching"}

\* C1: at most one background refresh is in flight; one is started only
\* while the flag is false, and the flag is true as long as it is in flight.
C1_SingleRefresh ==
    /\ [](Cardinality(InFlight) <= 1 /\ (InFlight # {} => refreshing))
    /\ [][\A g \in Goroutines :
            (pc[g] = "free" /\ pc'[g] # "free") => (~refreshing /\ refreshing')]_vars

\* a second scrape reads the cache as stale while the first one's refresh is
\* fetching, and starts nothing
C1_Witness ==
    \E s \in Scrapers, g \in Goroutines :
        /\ pc[s] = "age" /\ got[s].isStale /\ sawRefreshing[s]
        /\ pc[g] = "fetching"

\* C2: no two FetchCloudCosts calls are in progress at the same time.
C2_NoConcurrentFetch == Cardinality(Fetching) <= 1

C4_StaleServedWithoutWaiting ==
    /\ \A s \in Scrapers : (pc[s] = "age" /\ got[s].isStale) ~> (pc[s] = "idle")
    /\ [][\A s \in Scrapers :
            (pc[s] = "age" /\ got[s].isStale /\ pc'[s] # "age") =>
                /\ pc'[s] = "fx"
                /\ got[s].data # Nil /\ got[s].data = seen[s].data]_vars
    /\ [][\A s \in Scrapers :
            (pc[s] = "fx" /\ pc'[s] # "fx" /\ got[s].isStale) =>
                last' = [data |-> seen[s].data, ok |-> TRUE, isStale |-> TRUE,
                         sawRefreshing |-> sawRefreshing[s]]]_vars

\* the scrape that started the refresh has returned with the stale snapshot
\* while that refresh is still fetching
C4_Witness ==
    /\ last.isStale /\ ~last.sawRefreshing /\ last.data = cache.data
    /\ \A s \in Scrapers : pc[s] = "idle"
    /\ \E g \in Goroutines : pc[g] = "fetching"

\* C6: the in-flight flag, once set, is cleared again whether the refresh's
\* fetch succeeds or fails, and a stale read that finds it clear starts a
\* refresh.
C6_FlagCleared ==
    /\ refreshing ~> ~refreshing
    /\ [][\A s \in Scrapers :
            (pc[s] = "get" /\ pc'[s] # "get" /\ got'[s].isStale /\ ~refreshing) =>
                (refreshing' /\ \E g \in Goroutines : pc[g] = "free" /\ pc'[g] = "call")]_vars

\* a second refresh is fetching after the first one failed and cleared the flag
C6_Witness ==
    /\ refreshing
    /\ metrics.scrapeErrors > 0
    /\ cache.data # Nil
    /\ \E g \in Goroutines : pc[g] = "fetching" /\ fetch[g] > cache.data + 1
    /\ \A s \in Scrapers : pc[s] \notin {"call", "fetching", "setlock", "setdata", "setstamp"}

\* no Collect call and no refresh goroutine is running
Settled ==
    /\ \A s \in Scrapers : pc[s] = "idle"
    /\ \A g \in Goroutines : pc[g] = "free"

\* no scrape has been called since the two of InitStale
OnlyTheTwo == scrapesStarted = 3

\* the entry of InitStale, had nothing replaced it, would still be stale
StillStale == now - Seeded.fetchedAt <= ttl + maxStale

\* C5 as claimed: two concurrent scrapes of a cache that holds stale data both
\* serve the stale snapshot, and once they and the refresh have settled
\* exactly one fetch has been started.
C5_BothStaleOneFetch ==
    (OnlyTheTwo /\ StillStale) =>
        /\ \A s \in Scrapers :
            pc[s] \in {"age", "fx"} => (got[s].isStale /\ got[s].data = Seeded.data)
        /\ Settled => fetchesStarted = 2

\* C5 as amended: a scrape whose read is stale serves the snapshot that read
\* returned, and if the second scrape's read is stale and finds the in-flight
\* flag set, exactly one fetch has been started once everything has settled.
C5_StaleReadsOneFetch ==
    OnlyTheTwo =>
        /\ \A s \in Scrapers :
            (pc[s] \in {"age", "fx"} /\ got[s].isStale) =>
                (got[s].data # Nil /\ got[s].data = seen[s].data)
        /\ (Settled /\ last.isStale /\ last.sawRefreshing) => fetchesStarted = 2

\* both scrapes and the refresh have settled, the second having read the
\* stale entry while the refresh was in flight
C5_Witness ==
    /\ OnlyTheTwo /\ Settled
    /\ last.isStale /\ last.sawRefreshing /\ last.data = Seeded.data
    /\ fetchesStarted = 2

\* C7: a scrape whose read is not found makes one synchronous fetch before it
\* returns; on success the cache is Set to the new snapshot, which the scrape
\* serves; on failure it has no snapshot and scrapeErrors grows by one.
C7_MissFetchesOnce ==
    /\ [](\A s \in Scrapers :
            (pc[s] \in {"age", "fx"} /\ ~got[s].ok) =>
                (fetch[s] # Nil /\ got[s].data \in {Nil, fetch[s]}))
    /\ [][\A s \in Scrapers :
            /\ (pc[s] = "get" /\ pc'[s] # "get" /\ ~got'[s].ok) => pc'[s] = "call"
            /\ (pc[s] = "call" /\ pc'[s] # "call") =>
                   (pc'[s] = "fetching" /\ fetchesStarted' = fetchesStarted + 1)
            /\ (pc[s] = "fetching" /\ pc'[s] = "age") =>
                   /\ got'[s].data = Nil
                   /\ metrics'.scrapeErrors = metrics.scrapeErrors + 1
            /\ (pc[s] = "setstamp" /\ pc'[s] # "setstamp") =>
                   /\ pc'[s] = "age"
                   /\ cache'.data = fetch[s] /\ cache'.fetchedAt = now
                   /\ got'[s].data = fetch[s]
                   /\ metrics'.scrapeErrors = metrics.scrapeErrors
            /\ (pc[s] = "age" /\ pc'[s] # "age" /\ ~got[s].ok) =>
                   IF got[s].data = Nil
                   THEN pc'[s] = "idle" /\ last'.data = Nil
                   ELSE pc'[s] = "fx"]_vars

\* after a scrape that failed and served nothing, a scrape that missed has
\* fetched, Set the cache and emitted the new snapshot
C7_Witness ==
    \E s \in Scrapers :
        /\ pc[s] = "fx" /\ ~got[s].ok
        /\ got[s].data = fetch[s] /\ cache.data = fetch[s]
        /\ ~last.ok /\ last.data = Nil /\ metrics.scrapeErrors > 0

\* the freshness class of the entry alone
Expired(c, t) == c.data # Nil /\ t - c.fetchedAt > ttl + maxStale

\* C8: a failed synchronous fetch writes nothing to the cache; the entry
\* changes only inside a Set, and an expired entry stays expired until one.
C8_FailedFetchLeavesCache ==
    /\ [][\A s \in Scrapers :
            (pc[s] = "fetching" /\ pc'[s] = "age") =>
                (cache' = cache /\ cacheMu' = cacheMu)]_vars
    /\ [][(cache'.data # cache.data \/ cache'.fetchedAt # cache.fetchedAt) =>
            \E t \in Threads : cacheMu = t /\ pc[t] \in {"setdata", "setstamp"}
                                /\ pc'[t] # pc[t]]_vars
    /\ [][(Expired(cache, now) /\ cache'.data = cache.data
                                /\ cache'.fetchedAt = cache.fetchedAt) =>
            (Expired(cache', now') /\ Get(cache', now') = Miss)]_vars

\* the synchronous fetch of an expired entry has failed: the entry is still
\* there and still expired
C8_Witness ==
    \E s \in Scrapers :
        /\ pc[s] = "age" /\ ~got[s].ok /\ got[s].data = Nil /\ fetch[s] # Nil
        /\ Expired(cache, now) /\ cache.data = seen[s].data
        /\ cacheMu = Nil

\* the entry is empty, or the snapshot of one Set with the stamp of that Set
Whole(c) ==
    IF c.data = Nil THEN c.fetchedAt = ZeroTime ELSE c.fetchedAt = stampOf[c.data]

\* C9: outside a Set the entry is empty or the snapshot and the stamp of one
\* and the same Set, and that is all a reader ever sees.
C9_EntryAtomic ==
    /\ [](cacheMu = Nil => Whole(cache))
    /\ [][\A s \in Scrapers :
            (pc[s] = "get" /\ pc'[s] # "get") =>
                /\ Whole(cache)
                /\ seen'[s].data # Nil => seen'[s].age = now - stampOf[seen'[s].data]]_vars

\* a scrape has read the entry written by a second Set
C9_Witness ==
    \E s \in Scrapers :
        /\ got[s].ok /\ seen[s].data = cache.data /\ cacheMu = Nil
        /\ \E i \in DOMAIN stampOf : i # cache.data /\ stampOf[i] # ZeroTime

Class(c, t) ==
    IF c.data = Nil THEN "Empty"
    ELSE IF ~Get(c, t).ok THEN "Expired"
    ELSE IF Get(c, t).isStale THEN "Stale" ELSE "Fresh"

\* the order of the classes in the entry's state machine
Rank(k) == CASE k = "Empty" -> 0 [] k = "Fresh" -> 1 [] k = "Stale" -> 2
             [] k = "Expired" -> 3

\* C11: for every configuration, a Get that follows a Set with no time
\* passing in between returns the data just set, not stale, found.
C11_SetThenGet ==
    (ret.op = "Get" /\ ret.sets > 0 /\ ret.since = 0) =>
        (ret.data = ret.set /\ ~ret.isStale /\ ret.ok)

\* C12: as long as no Set has been made, every Get returns (nil, false,
\* false) and adds one to misses and nothing to hits.
C12_GetNeverSet ==
    /\ (ret.op = "Get" /\ ret.sets = 0) => (ret.data = Nil /\ ~ret.isStale /\ ~ret.ok)
    /\ calls.sets = 0 => (cache.hits = 0 /\ cache.misses = calls.gets)

\* Get has returned twice from a cache never Set
C12_Witness ==
    /\ calls.sets = 0 /\ calls.gets = 2 /\ cache.misses = 2
    /\ ret.op = "Get" /\ \A c \in Callers : at[c] # "Set"

\* C13: a Set leads from any class directly to Fresh, time alone never moves
\* the entry back to an earlier class, and nothing leads back to Empty.
C13_StateMachine ==
    [][/\ (\E c \in Callers : at[c] = "Set:stamp" /\ at'[c] = "idle") =>
              Class(cache', now') = "Fresh"
       /\ (cache'.data = cache.data /\ cache'.fetchedAt = cache.fetchedAt) =>
              Rank(Class(cache', now')) >= Rank(Class(cache, now))
       /\ Class(cache, now) # "Empty" => Class(cache', now') # "Empty"]_vars

\* C14: IsPopulated returns true exactly if a Set has been made, whatever
\* the class of the entry; the data of an expired entry is still there.
C14_PopulatedIffSet ==
    /\ ret.op = "IsPopulated" => (ret.populated <=> ret.sets > 0)
    /\ calls.sets > 0 => cache.data # Nil

\* IsPopulated has returned true for an entry that had expired
C14_Witness ==
    /\ ret.op = "IsPopulated" /\ ret.populated
    /\ ret.sets > 0 /\ ret.since > ttl + maxStale /\ ttl >= 0
    /\ Get(cache, now) = Miss

\* C15: every call of a method of Cache returns, whatever the other callers
\* do, and once all calls have returned hits + misses is the number of Get
\* calls made.
C15_NoDeadlockCountersExact ==
    /\ \A c \in Callers : (at[c] # "idle") ~> (at[c] = "idle")
    /\ []((\A c \in Callers : at[c] = "idle") =>
              cache.hits + cache.misses = calls.getCalls)
    /\ [](cache.hits + cache.misses = calls.gets)

\* a Set waits for a reader to leave while it keeps the other readers out
C15_Witness ==
    \E c, d \in Callers :
        /\ at[c] = "Set:data" /\ cacheMu = c
        /\ d \in readers /\ at[d] = "Get:locked"

\* C16: hits and misses never decrease; only Get changes them, one of them
\* by one per call: hits for a fresh or stale entry, misses for an empty or
\* expired one.  What Stats returned is never more than the counters.
C16_CountersMonotonic ==
    /\ [][/\ cache'.hits >= cache.hits /\ cache'.misses >= cache.misses
          /\ (cache'.hits # cache.hits \/ cache'.misses # cache.misses) =>
                 \E c \in Callers : at[c] = "Get:locked" /\ at'[c] = "idle"
          /\ \A c \in Callers :
                 (at[c] = "Get:locked" /\ at'[c] = "idle") =>
                     IF Class(cache, now) \in {"Fresh", "Stale"}
                     THEN cache'.hits = cache.hits + 1 /\ cache'.misses = cache.misses
                     ELSE cache'.hits = cache.hits /\ cache'.misses = cache.misses + 1]_vars
    /\ [](ret.op = "Stats" => (ret.hits <= cache.hits /\ ret.misses <= cache.misses))

\* the Get of an expired entry has added a miss
C16_Witness ==
    /\ ret.op = "Get" /\ ~ret.ok /\ ret.sets > 0 /\ ret.since > ttl + maxStale
    /\ cache.hits = 0 /\ cache.misses = 1

\* ------------------------------------------------------------ pkg/client

\* ctx.Err() of a context that is done
CtxErrors == {"context canceled", "context deadline exceeded"}

\* the ways a request that was sent fails in doFetch: httpClient.Do or
\* io.ReadAll returns an error, the status is not 200, the body does not
\* decode
Failures == {"do request", "read response body", "unexpected status",
             "decode response"}

\* the status codes the upstream answers with
Statuses == {StatusOK, StatusNoContent, StatusInternalServerError}

\* a response body: JSON that json.Unmarshal accepts, or anything else
Bodies == {"json", "malformed"}

\* httpClient.Do failed: there is no response
DoFailed == [err |-> "do", status |-> 0, body |-> ""]

\* what a request that was sent comes back with: httpClient.Do fails, or it
\* returns a status and io.ReadAll fails, or the body is read
Responses ==
    {DoFailed}
    \cup [err : {"read"}, status : Statuses, body : {""}]
    \cup [err : {"nil"}, status : Statuses, body : Bodies]

\* doFetch accepting every 2xx status
DoFetchAny2xx(r) ==
    IF r.err = "do" THEN "do request"
    ELSE IF r.err = "read" THEN "read response body"
    ELSE IF r.status \notin 200..299 THEN "unexpected status"
    ELSE IF r.body # "json" THEN "decode response"
    ELSE "ok"

\* doFetch, from the response on: the error it returns, or "ok"
DoFetch(r) ==
    IF r.err = "do" THEN "do request"
    ELSE IF r.err = "read" THEN "read response body"
    ELSE IF r.status # StatusOK THEN "unexpected status"
    ELSE IF r.body # "json" THEN "decode response"
    ELSE "ok"

\* a body that does not decode ends the call at once
AfterFailureDecodeFatal(k) == IF k = "decode response" THEN "done" ELSE "check"

\* FetchCloudCosts after doFetch returned the error k: lastErr = err and the
\* ctx check, whatever the error is
AfterFailure(k) == "check"

\* ctx.Err() as an error value
CtxErr(e) == [kind |-> e, n |-> 0, cause |-> "nil"]

\* an error of doFetch, wrapping cause
AttemptErr(k, cause) == [kind |-> k, n |-> 0, cause |-> cause]

\* fmt.Errorf("after %d retries: %w", c.maxRetries, lastErr)
RetriesErr(e) == [kind |-> "after retries", n |-> maxRetries, cause |-> e.kind]

\* fmt.Errorf("invalid base URL: %w", err)
InvalidURL == [kind |-> "invalid base URL", n |-> 0, cause |-> "parse"]

\* the backoff starting at two seconds
BackoffFromTwo(k) == 2 ^ k

\* time.Duration(1<<(attempt-1)) * time.Second, in seconds
Backoff(k) == 2 ^ (k - 1)

\* the loop stopping one attempt early
MoreAttemptsStrict(k) == k < maxRetries

\* the loop without its bound
MoreAttemptsAlways(k) == TRUE

\* for attempt := 0; attempt <= c.maxRetries; attempt++
MoreAttempts(k) == k <= maxRetries

\* the check after a failed attempt left out
CtxDoneIgnored == FALSE

\* ctx.Err() != nil
CtxDone == ctx # NilErr

\* FetchCloudCosts returns
ClientReturn(d, e) ==
    /\ result' = [data |-> d, err |-> e, ctx |-> ctx]
    /\ cpc' = "done"

\* the caller's context is cancelled or its deadline passes
ClientCancel ==
    /\ ctx = NilErr
    /\ cpc # "done"
    /\ \E e \in CtxErrors : ctx' = e
    /\ UNCHANGED <<config, cacheApi, aggregation, health, collector, now, cache, cacheMu, maxRetries,
                   urlOk, cpc, attempt, lastErr, result, requests, outcomes,
                   waits, ctxAtCall,
                   response>>

\* FetchCloudCosts is called: url.JoinPath and url.Parse, then the loop
\* starts with attempt = 0
ClientCall ==
    /\ cpc = "idle"
    /\ ctxAtCall' = ctx
    /\ IF urlOk
       THEN /\ attempt' = 0
            /\ cpc' = "attempt"
            /\ UNCHANGED result
       ELSE /\ ClientReturn(Nil, InvalidURL)
            /\ UNCHANGED attempt
    /\ UNCHANGED <<config, cacheApi, aggregation, health, collector, now, cache, cacheMu, maxRetries,
                   urlOk, ctx, lastErr, requests, outcomes, waits,
                   response>>

\* the loop body begins: `if attempt > 0` the backoff select, else doFetch
ClientLoop ==
    /\ cpc = "attempt"
    /\ cpc' = IF attempt > 0 THEN "backoff" ELSE "doFetch"
    /\ UNCHANGED <<config, cacheApi, aggregation, health, collector, now, cache, cacheMu, maxRetries,
                   urlOk, ctx, attempt, lastErr, result, requests, outcomes,
                   waits, ctxAtCall,
                   response>>

\* select: case <-time.After(backoff)
ClientBackoffElapsed ==
    /\ cpc = "backoff"
    /\ waits' = Append(waits, Backoff(attempt))
    /\ cpc' = "doFetch"
    /\ UNCHANGED <<config, cacheApi, aggregation, health, collector, now, cache, cacheMu, maxRetries,
                   urlOk, ctx, attempt, lastErr, result, requests, outcomes,
                   ctxAtCall,
                   response>>

\* select: case <-ctx.Done(): return nil, ctx.Err()
ClientBackoffCancelled ==
    /\ cpc = "backoff"
    /\ ctx # NilErr
    /\ ClientReturn(Nil, CtxErr(ctx))
    /\ UNCHANGED <<config, cacheApi, aggregation, health, collector, now, cache, cacheMu, maxRetries,
                   urlOk, ctx, attempt, lastErr, requests, outcomes, waits,
                   ctxAtCall,
                   response>>

\* doFetch: c.httpClient.Do(req).  With ctx done the transport returns
\* ctx.Err() before it sends anything; otherwise the request goes out.
ClientDoFetch ==
    /\ cpc = "doFetch"
    /\ IF ctx # NilErr
       THEN /\ lastErr' = AttemptErr("do request", ctx)
            /\ outcomes' = Append(outcomes, "do request")
            /\ response' = DoFailed
            /\ cpc' = "check"
            /\ UNCHANGED requests
       ELSE /\ requests' = requests + 1
            /\ cpc' = "inflight"
            /\ UNCHANGED <<lastErr, outcomes, response>>
    /\ UNCHANGED <<config, cacheApi, aggregation, health, collector, now, cache, cacheMu, maxRetries,
                   urlOk, ctx, attempt, result, waits, ctxAtCall>>

\* doFetch: status 200 and a body that decodes; FetchCloudCosts returns it
ClientAttemptOk ==
    /\ cpc = "inflight"
    /\ \E r \in Responses :
        /\ DoFetch(r) = "ok"
        /\ response' = r
    /\ outcomes' = Append(outcomes, "ok")
    /\ ClientReturn(requests, NoErr)
    /\ UNCHANGED <<config, cacheApi, aggregation, health, collector, now, cache, cacheMu, maxRetries,
                   urlOk, ctx, attempt, lastErr, requests, waits, ctxAtCall>>

\* doFetch returns an error: lastErr = err
ClientAttemptFail ==
    /\ cpc = "inflight"
    /\ \E r \in Responses :
        LET k == DoFetch(r) IN
        /\ k \in Failures
        /\ response' = r
        /\ lastErr' = AttemptErr(k, "nil")
        /\ outcomes' = Append(outcomes, k)
        /\ cpc' = AfterFailure(k)
    /\ UNCHANGED <<config, cacheApi, aggregation, health, collector, now, cache, cacheMu, maxRetries,
                   urlOk, ctx, attempt, result, requests, waits, ctxAtCall>>

\* doFetch: the request in flight is aborted because ctx is done
ClientAttemptAborted ==
    /\ cpc = "inflight"
    /\ ctx # NilErr
    /\ lastErr' = AttemptErr("do request", ctx)
    /\ outcomes' = Append(outcomes, "do request")
    /\ response' = DoFailed
    /\ cpc' = "check"
    /\ UNCHANGED <<config, cacheApi, aggregation, health, collector, now, cache, cacheMu, maxRetries,
                   urlOk, ctx, attempt, result, requests, waits, ctxAtCall>>

\* after a failed attempt: `if ctx.Err() != nil { return nil, ctx.Err() }`,
\* attempt++, and after the last attempt the error naming the retries
ClientCheck ==
    /\ cpc = "check"
    /\ IF CtxDone
       THEN /\ ClientReturn(Nil, CtxErr(ctx))
            /\ UNCHANGED attempt
       ELSE IF MoreAttempts(attempt + 1)
            THEN /\ attempt' = attempt + 1
                 /\ cpc' = "attempt"
                 /\ UNCHANGED result
            ELSE /\ ClientReturn(Nil, RetriesErr(lastErr))
                 /\ attempt' = attempt + 1
    /\ UNCHANGED <<config, cacheApi, aggregation, health, collector, now, cache, cacheMu, maxRetries,
                   urlOk, ctx, lastErr, requests, outcomes, waits, ctxAtCall,
                   response>>

\* client.New with any maxRetries (WithMaxRetries) and a base URL that
\* parses or does not; the cache and the collector are not running
InitClient ==
    /\ ttl = 0
    /\ maxStale = 0
    /\ CollectorIdle
    /\ NoCacheCalls
    /\ NoAggregation
    /\ maxRetries \in 0..MaxRetries
    /\ urlOk \in BOOLEAN
    /\ ctx = NilErr
    /\ cpc = "idle"
    /\ attempt = 0
    /\ lastErr = NoErr
    /\ result = NoResult
    /\ requests = 0
    /\ outcomes = <<>>
    /\ waits = <<>>
    /\ ctxAtCall = NilErr
    /\ response = NoResponse

NextClient ==
    \/ ClientCancel
    \/ ClientCall
    \/ ClientLoop
    \/ ClientBackoffElapsed
    \/ ClientBackoffCancelled
    \/ ClientDoFetch
    \/ ClientAttemptOk
    \/ ClientAttemptFail
    \/ ClientAttemptAborted
    \/ ClientCheck

SpecClient == InitClient /\ [][NextClient]_vars

\* every step of the call itself
ClientStep ==
    \/ ClientLoop \/ ClientBackoffElapsed \/ ClientBackoffCancelled
    \/ ClientDoFetch \/ ClientAttemptOk \/ ClientAttemptFail
    \/ ClientAttemptAborted \/ ClientCheck

\* The goroutine in FetchCloudCosts keeps running: the backoff timer fires
\* and every request ends (http.Client.Timeout).  Whether and when ctx is
\* cancelled is left open.
ClientFair == SpecClient /\ WF_vars(ClientStep)

\* ---------------------------------------------- claims about pkg/client

\* every doFetch call so far returned an error
AllFailed == \A i \in 1..Len(outcomes) : outcomes[i] # "ok"

\* C17: with every attempt failing and ctx never done, FetchCloudCosts makes
\* exactly maxRetries+1 attempts and returns the error "after maxRetries
\* retries" wrapping the error of the last attempt.
C17_RetriesThenWrappedError ==
    (cpc = "done" /\ urlOk /\ result.ctx = NilErr /\ AllFailed) =>
        /\ requests = maxRetries + 1
        /\ Len(outcomes) = maxRetries + 1
        /\ result.data = Nil
        /\ result.err = [kind |-> "after retries", n |-> maxRetries,
                         cause |-> outcomes[Len(outcomes)]]

\* with maxRetries = 2 three attempts have failed and the call has returned
\* the error naming 2 retries and wrapping the last failure
C17_Witness ==
    /\ cpc = "done" /\ maxRetries = 2 /\ requests = 3 /\ ctx = NilErr
    /\ outcomes = <<"unexpected status", "unexpected status", "decode response">>
    /\ result.err = [kind |-> "after retries", n |-> 2, cause |-> "decode response"]

\* C18: once ctx is done no further request is sent; a call that fails with
\* ctx done returns ctx.Err() and not the error naming the retries, whether
\* ctx was done when the call began (then nothing is sent at all), became
\* done during a backoff wait or is found done after a failed attempt.
C18_CancelStopsRetries ==
    /\ [][ctx # NilErr => requests' = requests]_vars
    /\ []((cpc = "done" /\ urlOk /\ ctxAtCall # NilErr) =>
              (requests = 0 /\ result.data = Nil /\ result.err = CtxErr(ctxAtCall)))
    /\ []((cpc = "done" /\ urlOk /\ result.ctx # NilErr /\ result.err # NoErr) =>
              result.err = CtxErr(result.ctx))
    /\ [][(cpc = "backoff" /\ cpc' = "done") => result'.err = CtxErr(ctx)]_vars

\* ctx became done during the first backoff wait: the call has returned
\* ctx.Err() after one request, with both retries unused
C18_Witness ==
    /\ cpc = "done" /\ maxRetries = 2 /\ ctxAtCall = NilErr
    /\ requests = 1 /\ attempt = 1 /\ waits = <<>>
    /\ result.err = CtxErr("context deadline exceeded")

\* C19: a call of FetchCloudCosts returns, after at most maxRetries+1
\* attempts.
C19_FetchTerminates ==
    /\ (cpc # "idle") ~> (cpc = "done")
    /\ [](requests <= maxRetries + 1 /\ Len(outcomes) <= maxRetries + 1)
    /\ [](attempt <= maxRetries + 1)

\* the last of maxRetries+1 attempts has failed and the call is about to
\* return
C19_Witness ==
    /\ cpc = "check" /\ maxRetries = MaxRetries /\ attempt = maxRetries
    /\ requests = maxRetries + 1 /\ AllFailed /\ ctx = NilErr

\* ------------------------------------------------- emitCostMetrics

\* float64, with MantissaBits bits of mantissa instead of 53 and without
\* negative values: the spacing of the values around x
RECURSIVE Ulp(_, _)
Ulp(x, q) == IF x < q * 2 ^ MantissaBits THEN q ELSE Ulp(x, 2 * q)

\* the float64 nearest to x, ties to the even mantissa
Round(x) ==
    LET q == Ulp(x, 1)
        lo == x - (x % q)
        hi == lo + q
    IN  IF x = lo THEN x
        ELSE IF 2 * x < lo + hi THEN lo
        ELSE IF 2 * x > lo + hi THEN hi
        ELSE IF (lo \div q) % 2 = 0 THEN lo ELSE hi

\* x + y on float64
FAdd(x, y) == Round(x + y)

\* the fields of CloudCostProperties that emitCostMetrics reads, but Labels
PropertyNames == {"ProviderID", "AccountID", "Service", "Category", "RegionID",
                  "AvailabilityZone"}

\* the labels emitCostMetrics reads
LabelNames == {"owner", "environment", "cluster"}

\* Labels of an item that carries none (nil map)
NoLabels == [n \in {} |-> ""]

BaseLabels == [owner |-> "team-a", environment |-> "prod", cluster |-> "c1"]

BaseProperties ==
    [ProviderID |-> "p1", AccountID |-> "a1", Service |-> "s1",
     Category |-> "Compute", RegionID |-> "r1", AvailabilityZone |-> "z1",
     Labels |-> BaseLabels]

\* what the items of a snapshot may differ in: one property, one label, or
\* having labels at all
Variants == PropertyNames \cup LabelNames \cup {"Labels"}

\* BaseProperties with v different
OtherProperties(v) ==
    IF v \in PropertyNames THEN [BaseProperties EXCEPT ![v] = "other"]
    ELSE IF v \in LabelNames THEN [BaseProperties EXCEPT !.Labels[v] = "other"]
    ELSE [BaseProperties EXCEPT !.Labels = NoLabels]

\* a CloudCostItem with the five costs c and Kubernetes percent k
CloudCostItem(p, c, k) ==
    [Properties       |-> p,
     ListCost         |-> [Cost |-> c[1], KubernetesPercent |-> k],
     NetCost          |-> [Cost |-> c[2], KubernetesPercent |-> k],
     AmortizedNetCost |-> [Cost |-> c[3], KubernetesPercent |-> k],
     InvoicedCost     |-> [Cost |-> c[4], KubernetesPercent |-> k],
     AmortizedCost    |-> [Cost |-> c[5], KubernetesPercent |-> k]]

\* the items a snapshot is made of: two with the same properties and
\* different costs, one that differs from them in v
Items(v) ==
    {CloudCostItem(BaseProperties, <<4, 3, 2, 1, 0>>, 1),
     CloudCostItem(BaseProperties, <<1, 1, 1, 1, 1>>, 0),
     CloudCostItem(OtherProperties(v), <<2, 1, 2, 1, 2>>, 1)}

\* names of the entries of CloudCostSet.CloudCosts
ItemNames == {"a", "b"}

\* CloudCostSet.CloudCosts: map[string]CloudCostItem
CloudCosts(v) == UNION {[names -> Items(v)] : names \in SUBSET ItemNames}

\* CloudCostData.Sets
Snapshots(v) == UNION {[1..n -> CloudCosts(v)] : n \in 0..MaxSets}

\* a missing label told apart from an empty one
LabelOrUnset(item, name) ==
    IF name \in DOMAIN item.Properties.Labels
    THEN item.Properties.Labels[name]
    ELSE "unset"

\* item.Properties.Labels[name]: the zero value "" for a missing name
Label(item, name) ==
    IF name \in DOMAIN item.Properties.Labels
    THEN item.Properties.Labels[name]
    ELSE ""

\* key := costKey{...}
CostKey(item) ==
    [providerID       |-> item.Properties.ProviderID,
     accountID        |-> item.Properties.AccountID,
     service          |-> item.Properties.Service,
     category         |-> item.Properties.Category,
     region           |-> item.Properties.RegionID,
     availabilityZone |-> item.Properties.AvailabilityZone,
     owner            |-> Label(item, "owner"),
     environment      |-> Label(item, "environment"),
     cluster          |-> Label(item, "cluster")]

\* &aggregatedCost{}
ZeroCost ==
    [listCost |-> 0, netCost |-> 0, amortizedNetCost |-> 0, invoicedCost |-> 0,
     amortizedCost |-> 0, kubePercent |-> 0]

\* the costs assigned instead of added
Overwritten(cost, item) ==
    [listCost         |-> item.ListCost.Cost,
     netCost          |-> item.NetCost.Cost,
     amortizedNetCost |-> item.AmortizedNetCost.Cost,
     invoicedCost     |-> item.InvoicedCost.Cost,
     amortizedCost    |-> item.AmortizedCost.Cost,
     kubePercent      |-> item.ListCost.KubernetesPercent]

\* the Kubernetes percent added up like the costs
AccumulateKubePercent(cost, item) ==
    [listCost         |-> FAdd(cost.listCost, item.ListCost.Cost),
     netCost          |-> FAdd(cost.netCost, item.NetCost.Cost),
     amortizedNetCost |-> FAdd(cost.amortizedNetCost, item.AmortizedNetCost.Cost),
     invoicedCost     |-> FAdd(cost.invoicedCost, item.InvoicedCost.Cost),
     amortizedCost    |-> FAdd(cost.amortizedCost, item.AmortizedCost.Cost),
     kubePercent      |-> FAdd(cost.kubePercent, item.ListCost.KubernetesPercent)]

\* aggregated[key].listCost += item.ListCost.Cost and the four statements
\* like it, then aggregated[key].kubePercent = item.ListCost.KubernetesPercent
Accumulate(cost, item) ==
    [listCost         |-> FAdd(cost.listCost, item.ListCost.Cost),
     netCost          |-> FAdd(cost.netCost, item.NetCost.Cost),
     amortizedNetCost |-> FAdd(cost.amortizedNetCost, item.AmortizedNetCost.Cost),
     invoicedCost     |-> FAdd(cost.invoicedCost, item.InvoicedCost.Cost),
     amortizedCost    |-> FAdd(cost.amortizedCost, item.AmortizedCost.Cost),
     kubePercent      |-> item.ListCost.KubernetesPercent]

\* emitCostMetrics(ch, data) is called: aggregated := make(map...)
EmitCostMetrics ==
    /\ apc = "idle"
    /\ aggregated' = NoEntries
    /\ setIdx' = 0
    /\ todo' = {}
    /\ apc' = "sets"
    /\ UNCHANGED <<config, cacheApi, clientCall, health, collector, now, cache, cacheMu,
                   emission, snapshot, varied, processed>>

\* for setIdx, set := range data.Data.Sets: the next set (counted from 1)
AggregateSet ==
    /\ apc = "sets"
    /\ todo = {}
    /\ setIdx < Len(snapshot)
    /\ setIdx' = setIdx + 1
    /\ todo' = DOMAIN snapshot[setIdx + 1]
    /\ UNCHANGED <<config, cacheApi, clientCall, health, collector, now, cache, cacheMu,
                   emission, snapshot, varied, apc, aggregated, processed>>

\* for _, item := range set.CloudCosts: the body, for an item the map
\* iteration yields next, which may be any that is left
AggregateItem ==
    /\ apc = "sets"
    /\ \E name \in todo :
        LET item == snapshot[setIdx][name]
            key == CostKey(item)
            entry == IF key \in DOMAIN aggregated THEN aggregated[key]
                     ELSE ZeroCost
        IN  /\ aggregated' = [k \in DOMAIN aggregated \cup {key} |->
                                 IF k = key THEN Accumulate(entry, item)
                                 ELSE aggregated[k]]
            /\ processed' = Append(processed, item)
            /\ todo' = todo \ {name}
    /\ UNCHANGED <<config, cacheApi, clientCall, health, collector, now, cache, cacheMu,
                   emission, snapshot, varied, apc, setIdx>>

\* both loops are over; for key, cost := range aggregated follows
AggregateDone ==
    /\ apc = "sets"
    /\ todo = {}
    /\ setIdx = Len(snapshot)
    /\ apc' = "emit"
    /\ todo' = DOMAIN aggregated
    /\ UNCHANGED <<config, cacheApi, clientCall, health, collector, now, cache, cacheMu,
                   emission, snapshot, varied, setIdx, aggregated, processed>>

\* any snapshot of up to MaxSets sets; nothing else runs
InitAggregate ==
    /\ ttl = 0
    /\ maxStale = 0
    /\ CollectorIdle
    /\ NoCacheCalls
    /\ NoClientCall
    /\ NoProbe
    /\ varied \in Variants
    /\ snapshot \in Snapshots(varied)
    /\ apc = "idle"
    /\ setIdx = 0
    /\ todo = {}
    /\ aggregated = NoEntries
    /\ processed = <<>>
    /\ NoEmission

NextAggregate ==
    \/ EmitCostMetrics
    \/ AggregateSet
    \/ AggregateItem
    \/ AggregateDone

SpecAggregate == InitAggregate /\ [][NextAggregate]_vars

\* ------------------------------------------ claims about emitCostMetrics

\* the five cost figures of aggregatedCost, and the field of CloudCostItem
\* each is taken from
Figures ==
    [listCost |-> "ListCost", netCost |-> "NetCost",
     amortizedNetCost |-> "AmortizedNetCost", invoicedCost |-> "InvoicedCost",
     amortizedCost |-> "AmortizedCost"]

\* the float64 sum of figure f over the items of key k, in the order of items
RECURSIVE SumOver(_, _, _)
SumOver(items, k, f) ==
    IF items = <<>> THEN 0
    ELSE LET n == Len(items)
             rest == SumOver(SubSeq(items, 1, n - 1), k, f)
         IN  IF CostKey(items[n]) = k
             THEN FAdd(rest, items[n][Figures[f]].Cost)
             ELSE rest

\* how often item occurs in the sets of the snapshot
InSnapshot(item) ==
    Cardinality({p \in {<<i, n>> : i \in 1..Len(snapshot), n \in ItemNames} :
                    /\ p[2] \in DOMAIN snapshot[p[1]]
                    /\ snapshot[p[1]][p[2]] = item})

\* how often item was iterated
InProcessed(item) == Cardinality({i \in 1..Len(processed) : processed[i] = item})

\* C20: at every point of the aggregation the map has one entry for each
\* DimensionKey among the items iterated so far, and each of its five cost
\* figures is the float64 sum of that figure over the items of that key
\* (added in the order iterated); when the loops are over every item of
\* every set has been iterated once.
C20_SumPerKey ==
    /\ DOMAIN aggregated = {CostKey(processed[i]) : i \in 1..Len(processed)}
    /\ \A k \in DOMAIN aggregated : \A f \in DOMAIN Figures :
           aggregated[k][f] = SumOver(processed, k, f)
    /\ apc = "emit" =>
           \A item \in Items(varied) : InProcessed(item) = InSnapshot(item)

\* three items of two sets aggregated into two entries: the two items that
\* share a key have their net costs 3 and 1 added, the third item has an
\* entry of its own
C20_Witness ==
    /\ apc = "emit"
    /\ Len(snapshot) = 2
    /\ Len(processed) = 3
    /\ Cardinality(DOMAIN aggregated) = 2
    /\ \E k \in DOMAIN aggregated :
        /\ aggregated[k].netCost = 4
        /\ aggregated[k].invoicedCost = 2
        /\ \E i, j \in 1..Len(processed) :
              /\ i # j /\ processed[i] # processed[j]
              /\ CostKey(processed[i]) = k /\ CostKey(processed[j]) = k

\* ------------------------------------- emitCostMetrics: the emit loop

\* the label names of the costTotal descriptor
CostTotalLabels ==
    <<"provider_id", "account_id", "service", "category", "cost_type", "region",
      "availability_zone", "owner", "environment", "cluster">>

\* the label names of the kubePercent descriptor
KubePercentLabels ==
    <<"provider_id", "account_id", "service", "category", "cost_type", "region">>

\* the emitCost calls without the last one
CostTypesShort ==
    <<[costType |-> "list", figure |-> "listCost"],
      [costType |-> "net", figure |-> "netCost"],
      [costType |-> "amortized_net", figure |-> "amortizedNetCost"],
      [costType |-> "invoiced", figure |-> "invoicedCost"]>>

\* the five emitCost calls of the loop body, in order: the cost type and
\* the field of aggregatedCost passed
CostTypes ==
    <<[costType |-> "list", figure |-> "listCost"],
      [costType |-> "net", figure |-> "netCost"],
      [costType |-> "amortized_net", figure |-> "amortizedNetCost"],
      [costType |-> "invoiced", figure |-> "invoicedCost"],
      [costType |-> "amortized", figure |-> "amortizedCost"]>>

\* labels := []string{key.providerID, ...}
KeyLabels(key) ==
    <<key.providerID, key.accountID, key.service, key.category, key.region,
      key.availabilityZone, key.owner, key.environment, key.cluster>>

\* the cost type put after region
FullLabelsAfterRegion(labels, costType) ==
    SubSeq(labels, 1, 5) \o <<costType>> \o SubSeq(labels, 6, Len(labels))

\* emitCost: labels[:4], costType, labels[4:]
FullLabels(labels, costType) ==
    SubSeq(labels, 1, 4) \o <<costType>> \o SubSeq(labels, 5, Len(labels))

\* prometheus.MustNewConstMetric(desc, GaugeValue, value, labelValues...)
\* panics unless there is one value for each label of the descriptor
ConstMetric(desc, names, value, labelValues) ==
    [desc |-> desc, value |-> value, labels |-> labelValues,
     panic |-> Len(labelValues) # Len(names)]

\* emitCost(ch, labels, costType, value)
EmitCost(labels, costType, value) ==
    ConstMetric("costTotal", CostTotalLabels, value, FullLabels(labels, costType))

\* the Kubernetes percent metric of the loop body
EmitKubePercent(key, cost) ==
    ConstMetric("kubePercent", KubePercentLabels, cost.kubePercent,
                <<key.providerID, key.accountID, key.service, key.category,
                  "amortized_net", key.region>>)

\* for key, cost := range aggregated: the body, for an entry the map
\* iteration yields next, which may be any that is left
EmitKey ==
    /\ apc = "emit"
    /\ \E key \in todo :
        LET cost == aggregated[key]
            labels == KeyLabels(key)
            costs == [i \in 1..Len(CostTypes) |->
                         EmitCost(labels, CostTypes[i].costType,
                                  cost[CostTypes[i].figure])]
            kube == IF emitKubePercentMetrics
                    THEN <<EmitKubePercent(key, cost)>>
                    ELSE <<>>
        IN  /\ ch' = ch \o costs \o kube
            /\ todo' = todo \ {key}
    /\ UNCHANGED <<config, cacheApi, clientCall, health, collector, now, cache, cacheMu,
                   snapshot, varied, apc, setIdx, aggregated, processed,
                   previous, emitKubePercentMetrics, fx>>

\* the loop is over and emitCostMetrics returns
EmitReturn ==
    /\ apc = "emit"
    /\ todo = {}
    /\ apc' = "done"
    /\ UNCHANGED <<config, cacheApi, clientCall, health, collector, now, cache, cacheMu,
                   emission, snapshot, varied, setIdx, todo, aggregated,
                   processed>>

\* the next scrape calls emitCostMetrics with the same cached snapshot
EmitCostMetricsAgain ==
    /\ apc = "done"
    /\ ~previous.done
    /\ previous' = [done |-> TRUE, aggregated |-> aggregated, ch |-> ch]
    /\ aggregated' = NoEntries
    /\ processed' = <<>>
    /\ ch' = <<>>
    /\ setIdx' = 0
    /\ todo' = {}
    /\ apc' = "sets"
    /\ UNCHANGED <<config, cacheApi, clientCall, health, collector, now, cache, cacheMu,
                   snapshot, varied, emitKubePercentMetrics, fx>>

\* any snapshot of up to MaxEmitSets sets, with the Kubernetes percent metric
\* enabled or not
InitEmit ==
    /\ ttl = 0
    /\ maxStale = 0
    /\ CollectorIdle
    /\ NoCacheCalls
    /\ NoClientCall
    /\ NoProbe
    /\ varied \in Variants
    /\ snapshot \in Snapshots(varied)
    /\ Len(snapshot) <= MaxEmitSets
    /\ apc = "idle"
    /\ setIdx = 0
    /\ todo = {}
    /\ aggregated = NoEntries
    /\ processed = <<>>
    /\ ch = <<>>
    /\ previous = NoPass
    /\ emitKubePercentMetrics \in BOOLEAN
    /\ fx = NoRates(DefaultSymbols)

NextEmit ==
    \/ EmitCostMetrics
    \/ AggregateSet
    \/ AggregateItem
    \/ AggregateDone
    \/ EmitKey
    \/ EmitReturn

SpecEmit == InitEmit /\ [][NextEmit]_vars

\* snapshots whose items have labels or none
InitPasses == InitAggregate /\ varied = "Labels"

NextPasses ==
    \/ EmitCostMetrics
    \/ AggregateSet
    \/ AggregateItem
    \/ AggregateDone
    \/ EmitKey
    \/ EmitReturn
    \/ EmitCostMetricsAgain

\* two scrapes, one after the other, emit the same cached snapshot
SpecPasses == InitPasses /\ [][NextPasses]_vars

\* ------------------------------------------ claims about aggregation

\* C21: a second emitCostMetrics call on the same snapshot ends with the same
\* map as the first: the same keys, and for every key the same five cost
\* figures and the same Kubernetes percent, whatever order the items of each
\* set were iterated in.
C21_SamePassSameResult ==
    (apc = "done" /\ previous.done) => aggregated = previous.aggregated

\* the last item iterated whose key is k
LastOf(k) ==
    processed[CHOOSE i \in 1..Len(processed) :
                 /\ CostKey(processed[i]) = k
                 /\ \A j \in (i + 1)..Len(processed) : CostKey(processed[j]) # k]

\* C22: at every point of the aggregation the Kubernetes percent of a key is
\* the Kubernetes percent of the item iterated last among the items of that
\* key, so it is the value of one item of the key and not a sum.
C22_KubePercentLastWins ==
    \A k \in DOMAIN aggregated :
        /\ aggregated[k].kubePercent = LastOf(k).ListCost.KubernetesPercent
        /\ \E i \in 1..Len(processed) :
              /\ CostKey(processed[i]) = k
              /\ aggregated[k].kubePercent <= processed[i].ListCost.KubernetesPercent

\* two items of one key with Kubernetes percent 1 each were aggregated, and
\* the key's Kubernetes percent is 1
C22_Witness ==
    /\ apc = "emit"
    /\ \E k \in DOMAIN aggregated :
        /\ aggregated[k].kubePercent = 1
        /\ \E i, j \in 1..Len(processed) :
              /\ i < j
              /\ CostKey(processed[i]) = k /\ CostKey(processed[j]) = k
              /\ processed[i].ListCost.KubernetesPercent = 1
              /\ processed[j].ListCost.KubernetesPercent = 1

\* ------------------------------------------- claims about the emit loop

\* the cost types of the claims, and the figure each stands for
TypeFigure ==
    [list |-> "listCost", net |-> "netCost", amortized_net |-> "amortizedNetCost",
     invoiced |-> "invoicedCost", amortized |-> "amortizedCost"]

\* the ten label values of a cost observation as the claim orders them
TenLabels(key, t) ==
    <<key.providerID, key.accountID, key.service, key.category, t, key.region,
      key.availabilityZone, key.owner, key.environment, key.cluster>>

\* positions in ch of the metrics of descriptor desc
Sent(desc) == {i \in 1..Len(ch) : ch[i].desc = desc}

\* C23: every cost metric sent carries ten label values, one for each label
\* of the descriptor, and they are those of a key of the map in the order
\* provider id, account id, service, category, cost type, region,
\* availability zone, owner, environment, cluster; the descriptor names
\* cost_type in the same fifth place.
C23_LabelOrder ==
    /\ CostTotalLabels[5] = "cost_type"
    /\ \A i \in Sent("costTotal") :
        /\ ~ch[i].panic
        /\ Len(ch[i].labels) = 10
        /\ \E key \in DOMAIN aggregated : \E t \in DOMAIN TypeFigure :
               ch[i].labels = TenLabels(key, t)

\* the net cost of the key whose nine fields are the base values was sent
\* with the cost type between category and region
C23_Witness ==
    \E i \in Sent("costTotal") :
        ch[i].labels = <<"p1", "a1", "s1", "Compute", "net", "r1", "z1",
                         "team-a", "prod", "c1">>

\* C24: when emitCostMetrics returns it has sent, for every key of the map
\* and every cost type, exactly one cost metric with that key's labels and
\* that cost type, carrying the key's aggregated figure, and no other cost
\* metric; with emitKubePercentMetrics set it has also sent one Kubernetes
\* percent metric per key, with cost type amortized_net and the key's
\* kubePercent, and without it none.
C24_FivePerKey ==
    apc = "done" =>
        /\ \A key \in DOMAIN aggregated : \A t \in DOMAIN TypeFigure :
               \E i \in Sent("costTotal") :
                   /\ ch[i].labels = TenLabels(key, t)
                   /\ ch[i].value = aggregated[key][TypeFigure[t]]
                   /\ \A j \in Sent("costTotal") :
                          ch[j].labels = ch[i].labels => j = i
        /\ Cardinality(Sent("costTotal")) = 5 * Cardinality(DOMAIN aggregated)
        /\ IF emitKubePercentMetrics
           THEN /\ Cardinality(Sent("kubePercent")) = Cardinality(DOMAIN aggregated)
                /\ \A key \in DOMAIN aggregated : \E i \in Sent("kubePercent") :
                       /\ ch[i].labels = <<key.providerID, key.accountID,
                                           key.service, key.category,
                                           "amortized_net", key.region>>
                       /\ ch[i].value = aggregated[key].kubePercent
                       /\ ~ch[i].panic
           ELSE Sent("kubePercent") = {}

\* two keys were emitted with the Kubernetes percent metric enabled: ten cost
\* metrics and two Kubernetes percent metrics
C24_Witness ==
    /\ apc = "done"
    /\ emitKubePercentMetrics
    /\ Cardinality(DOMAIN aggregated) = 2
    /\ Cardinality(Sent("costTotal")) = 10
    /\ Cardinality(Sent("kubePercent")) = 2

\* ------------------------------- claims about the refresh and the scrape

\* the refresh goroutines that take this step
Stepping == {g \in Goroutines : pc[g] # "free" /\ pc'[g] # pc[g]}

\* C25: no step of a refresh goroutine touches a Collect call: its locals,
\* its position and what it served stay as they are.  A refresh whose fetch
\* fails adds one to scrapeErrors and changes nothing else, the cache entry
\* included; a refresh changes the cache only in the Set of a fetch that
\* succeeded and the flag only by clearing it at its end.  A scrape that read
\* the entry stale returns having served the snapshot it read.
C25_RefreshFailureStaysInBackground ==
    /\ [][\A g \in Stepping :
            /\ got' = got /\ seen' = seen /\ last' = last /\ mu' = mu
            /\ \A s \in Scrapers : pc'[s] = pc[s]
            /\ (pc[g] = "fetching" /\ pc'[g] = "clear") =>
                  /\ cache' = cache
                  /\ refreshing' = refreshing
                  /\ metrics' = [metrics EXCEPT !.scrapeErrors = @ + 1]
            /\ cache' # cache => pc[g] \in {"setdata", "setstamp"}
            /\ refreshing' # refreshing =>
                  /\ pc[g] = "clear" /\ pc'[g] = "free" /\ ~refreshing'
                  /\ cache' = cache /\ metrics' = metrics]_vars
    /\ [][\A s \in Scrapers :
            (pc[s] # "idle" /\ pc'[s] = "idle" /\ got[s].ok /\ got[s].isStale) =>
                /\ last'.data = seen[s].data
                /\ last'.data # Nil
                /\ last'.ok /\ last'.isStale]_vars

\* the second fetch, a refresh's, has failed: the error is counted, the
\* cache still holds the first snapshot, the flag is still set, and the
\* scrape that started the refresh has returned the stale snapshot
C25_Witness ==
    /\ \E g \in Goroutines : pc[g] = "clear"
    /\ \A s \in Scrapers : pc[s] = "idle"
    /\ fetchesStarted = 2
    /\ metrics.scrapeErrors = 1
    /\ cache.data = 1
    /\ refreshing
    /\ last.ok /\ last.isStale /\ last.data = 1

\* -------------------------------------------------- emitExchangeRates

\* the label names of the exchangeRate descriptor
ExchangeRateLabels == <<"base", "target">>

\* currencySymbols as --currency-symbols may set them
SymbolLists == {{}, DefaultSymbols}

\* ExchangeRateResponse.Rates: a rate for some of the symbols asked for
RatesOf(symbols) == UNION {[some -> {7}] : some \in SUBSET symbols}

\* the orders in which a range over the map rates may yield its keys
Orders(rates) ==
    {o \in [1..Cardinality(DOMAIN rates) -> DOMAIN rates] :
        \A i, j \in DOMAIN o : o[i] = o[j] => i = j}

\* emitExchangeRates: no currency symbol is configured, nothing is fetched
ExchangeRatesNone ==
    /\ apc = "done"
    /\ fx.symbols = {}
    /\ apc' = "returned"
    /\ UNCHANGED <<config, cacheApi, clientCall, health, collector, now, cache, cacheMu,
                   snapshot, varied, setIdx, todo, aggregated, processed,
                   emission>>

\* emitExchangeRates: the failed fetch counted in scrapeErrors
ExchangeRatesFailCounted ==
    /\ apc = "done"
    /\ fx.symbols # {}
    /\ fx' = [fx EXCEPT !.calls = @ + 1, !.err = TRUE]
    /\ metrics' = [metrics EXCEPT !.scrapeErrors = @ + 1]
    /\ apc' = "returned"
    /\ UNCHANGED <<config, cacheApi, clientCall, health, now, cache, cacheMu, mu,
                   refreshing, pc, got, fetch, ghost, fetchesStarted,
                   scrapesStarted, snapshot, varied, setIdx, todo, aggregated,
                   processed, ch, previous, emitKubePercentMetrics>>

\* emitExchangeRates: FetchExchangeRates returns an error, which is logged
ExchangeRatesFail ==
    /\ apc = "done"
    /\ fx.symbols # {}
    /\ fx' = [fx EXCEPT !.calls = @ + 1, !.err = TRUE]
    /\ apc' = "returned"
    /\ UNCHANGED <<config, cacheApi, clientCall, health, collector, now, cache, cacheMu,
                   snapshot, varied, setIdx, todo, aggregated, processed, ch,
                   previous, emitKubePercentMetrics>>

\* emitExchangeRates: FetchExchangeRates returns rates, and one metric is
\* sent for each, in the order the map yields them
ExchangeRatesOk ==
    /\ apc = "done"
    /\ fx.symbols # {}
    /\ fx' = [fx EXCEPT !.calls = @ + 1, !.err = FALSE]
    /\ \E rates \in RatesOf(fx.symbols) : \E o \in Orders(rates) :
          ch' = ch \o [i \in DOMAIN o |->
                          ConstMetric("exchangeRate", ExchangeRateLabels,
                                      rates[o[i]], <<"USD", o[i]>>)]
    /\ apc' = "returned"
    /\ UNCHANGED <<config, cacheApi, clientCall, health, collector, now, cache, cacheMu,
                   snapshot, varied, setIdx, todo, aggregated, processed,
                   previous, emitKubePercentMetrics>>

\* Collect has a snapshot of up to MaxEmitSets sets to emit; the Kubernetes
\* percent metric is enabled or not, currency symbols are configured or not
InitRates ==
    /\ ttl = 0
    /\ maxStale = 0
    /\ CollectorIdle
    /\ NoCacheCalls
    /\ NoClientCall
    /\ NoProbe
    /\ varied \in Variants
    /\ snapshot \in Snapshots(varied)
    /\ Len(snapshot) <= MaxEmitSets
    /\ apc = "idle"
    /\ setIdx = 0
    /\ todo = {}
    /\ aggregated = NoEntries
    /\ processed = <<>>
    /\ ch = <<>>
    /\ previous = NoPass
    /\ emitKubePercentMetrics \in BOOLEAN
    /\ \E symbols \in SymbolLists : fx = NoRates(symbols)

NextRates ==
    \/ EmitCostMetrics
    \/ AggregateSet
    \/ AggregateItem
    \/ AggregateDone
    \/ EmitKey
    \/ EmitReturn
    \/ ExchangeRatesNone
    \/ ExchangeRatesFail
    \/ ExchangeRatesOk

\* the end of one Collect call: emitCostMetrics, then emitExchangeRates
SpecRates == InitRates /\ [][NextRates]_vars

\* -------------------------------------- claims about emitExchangeRates

\* the metrics sent that are not exchange rates, in order
CostMetrics(sent) == SelectSeq(sent, LAMBDA m : m.desc # "exchangeRate")

\* C26: emitExchangeRates leaves what emitCostMetrics sent as it is, adds
\* only exchange rate metrics, and changes neither the cache nor any
\* counter; when the fetch of the rates fails it sends nothing at all, so
\* the cost and Kubernetes percent metrics of the scrape are those of a
\* scrape whose fetch succeeded.
C26_RateFailureOnlyDropsRates ==
    /\ [][(apc = "done" /\ apc' = "returned") =>
              /\ CostMetrics(ch') = ch
              /\ cache' = cache
              /\ metrics' = metrics
              /\ fx'.err => ch' = ch]_vars
    /\ []((apc = "returned" /\ fx.err) => Sent("exchangeRate") = {})

\* the fetch of the rates has failed after the metrics of two keys were sent
\* with the Kubernetes percent metric enabled: the twelve metrics are there
\* and no exchange rate
C26_Witness ==
    /\ apc = "returned"
    /\ fx.err /\ fx.calls = 1
    /\ Cardinality(Sent("costTotal")) = 10
    /\ Cardinality(Sent("kubePercent")) = 2
    /\ Len(ch) = 12

\* ------------------------------------------------------ readyzHandler

\* cl.Ping(ctx): nil when OpenCost answers /healthz with 200
Ping == IF reachable THEN "nil" ELSE "unhealthy"

\* readyzHandler answers a request: ca.IsPopulated(), which takes the read
\* lock of the cache, then the ping if the cache is not populated
ReadyzHandler ==
    /\ RLock
    /\ LET populated == IsPopulated(cache)
           err == IF populated THEN "nil" ELSE Ping
       IN  readyz' = [status |-> IF err # "nil" THEN StatusServiceUnavailable
                                 ELSE StatusOK,
                      body |-> IF err # "nil" THEN "not ready" ELSE "ready",
                      populated |-> populated,
                      reachable |-> reachable]
    /\ UNCHANGED <<config, cacheApi, clientCall, aggregation, collector, now,
                   cache, cacheMu, reachable>>

\* OpenCost goes down or comes back
UpstreamChange ==
    /\ reachable' = ~reachable
    /\ UNCHANGED <<config, cacheApi, clientCall, aggregation, collector, now,
                   cache, cacheMu, readyz>>

\* the cache as cache.New leaves it, OpenCost up, /readyz not asked yet
InitReady == InitLocking

NextReady ==
    \/ ReadyzHandler
    \/ UpstreamChange
    \/ \E c \in Callers : CacheCall(c)
    \/ \E c \in Callers : CacheRLock(c)
    \/ \E c \in Callers : CacheGet(c)
    \/ \E c \in Callers : CacheAge(c)
    \/ \E c \in Callers : CacheIsPopulated(c)
    \/ \E c \in Callers : CacheStatsHits(c)
    \/ \E c \in Callers : CacheStatsMisses(c)
    \/ \E c \in Callers : CacheSetLock(c)
    \/ \E c \in Callers : CacheSetData(c)
    \/ \E c \in Callers : CacheSetStamp(c)
    \/ Tick

\* /readyz asked while goroutines use the cache and OpenCost comes and goes
SpecReady == InitReady /\ [][NextReady]_vars

\* ---------------------------------------------- claims about /readyz

\* C27: every answer of readyzHandler is 200 'ready' if OpenCost is
\* reachable and the cache is populated, and 503 otherwise.
C27_ReadyOnlyIfBoth ==
    readyz.status # 0 =>
        IF readyz.populated /\ readyz.reachable
        THEN readyz.status = StatusOK /\ readyz.body = "ready"
        ELSE readyz.status = StatusServiceUnavailable

\* ------------------------------------------ claims about a fresh scrape

\* the refresh machinery: the cache entry, the flag, the fetches started,
\* the refresh goroutines
Machinery ==
    <<cache.data, cache.fetchedAt, refreshing, fetchesStarted,
      [g \in Goroutines |-> pc[g]]>>

\* C28: a Get within ttl of the entry's Set is a fresh hit, and a Collect
\* call whose Get is fresh changes, from that Get to its return, neither the
\* cache entry nor the flag, starts no fetch and no refresh goroutine, and
\* never enters fetchAndCache.
C28_FreshScrapeNoSideEffect ==
    /\ [][\A s \in Scrapers :
            (/\ pc[s] = "get" /\ pc'[s] # "get"
             /\ cache.data # Nil /\ now - cache.fetchedAt <= ttl) =>
                got'[s].ok /\ ~got'[s].isStale]_vars
    /\ [][\A s \in Scrapers :
            (pc[s] = "get" /\ pc'[s] # "get" /\ got'[s].ok /\ ~got'[s].isStale) =>
                /\ pc'[s] = "age"
                /\ Machinery' = Machinery
                /\ metrics'.cacheHits = metrics.cacheHits + 1]_vars
    /\ [][\A s \in Scrapers :
            (/\ pc[s] \in {"age", "fx"} /\ pc'[s] # pc[s]
             /\ got[s].ok /\ ~got[s].isStale) =>
                /\ pc'[s] \in {"fx", "idle"}
                /\ Machinery' = Machinery]_vars

\* after the scrape whose synchronous fetch filled the cache a second scrape
\* has read the entry fresh and returned it: still one fetch, no goroutine
C28_Witness ==
    /\ \A s \in Scrapers : pc[s] = "idle"
    /\ scrapesStarted = 2
    /\ fetchesStarted = 1
    /\ cache.data = 1 /\ cache.hits = 1 /\ cache.misses = 1
    /\ last.ok /\ ~last.isStale /\ last.data = 1
    /\ ~refreshing /\ InFlight = {}

\* ------------------------------------------- claims about the backoff

\* C29: the waits that elapse in a FetchCloudCosts call are 1, 2, 4, ...
\* seconds: the wait before retry k is 2^(k-1), the first is 1 and each
\* later one is twice the one before; an attempt k >= 1 is made only after
\* k waits have elapsed and the initial attempt after none; no more than
\* maxRetries waits elapse.
C29_BackoffDoubles ==
    /\ \A k \in 1..Len(waits) :
        /\ waits[k] = 2 ^ (k - 1)
        /\ k = 1 => waits[k] = 1
        /\ k > 1 => waits[k] = 2 * waits[k - 1]
    /\ Len(waits) <= maxRetries
    /\ cpc \in {"doFetch", "inflight", "check"} => Len(waits) = attempt

\* the second retry is about to be made after waits of 1 and 2 seconds
C29_Witness ==
    /\ cpc = "doFetch"
    /\ attempt = 2
    /\ waits = <<1, 2>>
    /\ requests = 2

\* --------------------------------------------- claims about the locks

\* C30: whatever runs comes to an end (no thread is blocked for ever on
\* c.mu of the collector or on the lock of the cache), and a refresh
\* goroutine holds neither lock while its fetch is in progress: it holds the
\* cache's lock only inside Set and the collector's only for the instant in
\* which it clears the flag.
C30_LocksNeverDeadlock ==
    /\ (~Settled) ~> Settled
    /\ [](\A g \in Goroutines :
            /\ mu # g
            /\ cacheMu = g => pc[g] \in {"setdata", "setstamp"}
            /\ pc[g] \in {"call", "fetching"} => cacheMu # g)

\* with the refresh still fetching, a scrape that found the flag set has
\* read the stale snapshot and returned, and the next scrape holds c.mu
C30_Witness ==
    /\ \E g \in Goroutines : pc[g] = "fetching"
    /\ refreshing
    /\ last.ok /\ last.isStale /\ last.sawRefreshing
    /\ \E s \in Scrapers : mu = s /\ pc[s] = "get"

\* ------------------------------------- claims about doFetch's failures

\* the outcome of the doFetch call that has just returned
LastOutcome == outcomes[Len(outcomes)]

\* every doFetch call so far got a body that does not decode
AllMalformed == \A i \in 1..Len(outcomes) : outcomes[i] = "decode response"

\* C32: a doFetch call that fails on a body that does not decode leaves
\* FetchCloudCosts where every other failure of a request leaves it, at the
\* ctx check with lastErr set; a call in which every response was malformed
\* and ctx never done has sent maxRetries+1 requests, has waited 1, 2, 4, ...
\* seconds between them and returns the error naming maxRetries retries that
\* wraps the decode error.
C32_MalformedBodyRetried ==
    /\ [][(cpc = "inflight" /\ cpc' # "inflight" /\ LastOutcome' \in Failures) =>
              /\ cpc' = "check"
              /\ lastErr' = AttemptErr(LastOutcome', ctx)
                   \/ lastErr' = AttemptErr(LastOutcome', "nil")
              /\ result' = result
              /\ attempt' = attempt]_vars
    /\ []((cpc = "done" /\ urlOk /\ result.ctx = NilErr /\ AllMalformed) =>
              /\ requests = maxRetries + 1
              /\ Len(outcomes) = maxRetries + 1
              /\ waits = [k \in 1..maxRetries |-> 2 ^ (k - 1)]
              /\ result.data = Nil
              /\ result.err = [kind |-> "after retries", n |-> maxRetries,
                               cause |-> "decode response"])

\* with maxRetries = 2 three malformed bodies of status 200 were received,
\* after waits of 1 and 2 seconds, and the call has returned the error
\* naming 2 retries
C32_Witness ==
    /\ cpc = "done" /\ maxRetries = 2 /\ requests = 3 /\ ctx = NilErr
    /\ outcomes = <<"decode response", "decode response", "decode response">>
    /\ response = [err |-> "nil", status |-> StatusOK, body |-> "malformed"]
    /\ waits = <<1, 2>>
    /\ result.err.kind = "after retries"

\* C33: a doFetch call returns a snapshot exactly when the request was
\* answered with status 200 and a body that decodes, and an error for every
\* other answer, the other 2xx statuses included; after an error the loop
\* goes on, and the first doFetch call that succeeds ends FetchCloudCosts,
\* which returns that call's snapshot: a success is always the last outcome
\* and the number of requests stays what it was.
C33_OnlyStatus200Succeeds ==
    /\ [][(Len(outcomes') > Len(outcomes)) =>
              /\ (LastOutcome' = "ok") <=>
                     (/\ response'.err = "nil"
                      /\ response'.status = StatusOK
                      /\ response'.body = "json")
              /\ LastOutcome' = "ok" =>
                     /\ cpc' = "done"
                     /\ result' = [data |-> requests, err |-> NoErr, ctx |-> ctx]
              /\ LastOutcome' # "ok" => cpc' = "check" /\ result' = result]_vars
    /\ [](\A i \in 1..Len(outcomes) :
              outcomes[i] = "ok" => (i = Len(outcomes) /\ cpc = "done"))
    /\ [][cpc = "done" => requests' = requests /\ outcomes' = outcomes]_vars
    /\ [][(cpc = "check" /\ cpc' # "check" /\ ctx = NilErr /\ attempt < maxRetries) =>
              (cpc' = "attempt" /\ attempt' = attempt + 1)]_vars

\* the first answer was 204 with a body that decodes and was taken for an
\* error; the second, 200 with the same body, ended the call with the
\* snapshot of the second request
C33_Witness ==
    /\ cpc = "done"
    /\ outcomes = <<"unexpected status", "ok">>
    /\ requests = 2
    /\ result = [data |-> 2, err |-> NoErr, ctx |-> NilErr]
    /\ response = [err |-> "nil", status |-> StatusOK, body |-> "json"]

\* ------------------------------------------------ items without labels

\* what the items of a snapshot lack: one label, or the label map
LabelVariants == LabelNames \cup {"Labels"}

\* the labels BaseLabels names, without v
Missing(v) ==
    IF v = "Labels" THEN NoLabels
    ELSE [n \in LabelNames \ {v} |-> BaseLabels[n]]

\* the labels BaseLabels names, with v set to the empty string
Emptied(v) ==
    IF v = "Labels" THEN [n \in LabelNames |-> ""]
    ELSE [BaseLabels EXCEPT ![v] = ""]

\* an item that lacks v, one that has v empty, one that has every label
LabelItems(v) ==
    {CloudCostItem([BaseProperties EXCEPT !.Labels = Missing(v)], <<4, 3, 2, 1, 0>>, 1),
     CloudCostItem([BaseProperties EXCEPT !.Labels = Emptied(v)], <<1, 1, 1, 1, 1>>, 0),
     CloudCostItem(BaseProperties, <<2, 1, 2, 1, 2>>, 1)}

\* CloudCostData.Sets made of such items
LabelSnapshots(v) ==
    UNION {[1..n -> UNION {[names -> LabelItems(v)] : names \in SUBSET ItemNames}] :
              n \in 0..MaxEmitSets}

\* a snapshot whose items lack a label, have it empty or have it set; the
\* Kubernetes percent metric is enabled or not
InitLabels ==
    /\ ttl = 0
    /\ maxStale = 0
    /\ CollectorIdle
    /\ NoCacheCalls
    /\ NoClientCall
    /\ NoProbe
    /\ varied \in LabelVariants
    /\ snapshot \in LabelSnapshots(varied)
    /\ apc = "idle"
    /\ setIdx = 0
    /\ todo = {}
    /\ aggregated = NoEntries
    /\ processed = <<>>
    /\ ch = <<>>
    /\ previous = NoPass
    /\ emitKubePercentMetrics \in BOOLEAN
    /\ fx = NoRates(DefaultSymbols)

NextLabels ==
    \/ EmitCostMetrics
    \/ AggregateSet
    \/ AggregateItem
    \/ AggregateDone
    \/ EmitKey
    \/ EmitReturn

SpecLabels == InitLabels /\ [][NextLabels]_vars

\* --------------------------------------------- claims about the labels

\* the labels of the item iterated i-th
LabelsOf(i) == processed[i].Properties.Labels

\* the value the claim gives label n of the item iterated i-th
Claimed(i, n) == IF n \in DOMAIN LabelsOf(i) THEN LabelsOf(i)[n] ELSE ""

\* C34: the owner, environment and cluster of an item's key are the values
\* of its labels of those names, and the empty string for a label it does
\* not have or when it has no label map; an item that lacks a label and an
\* item that has it empty, alike in everything else, are aggregated under
\* one key; and every cost metric sent carries ten label values, the empty
\* ones included.
C34_MissingLabelIsEmpty ==
    /\ \A i \in 1..Len(processed) :
        /\ CostKey(processed[i]) \in DOMAIN aggregated
        /\ CostKey(processed[i]).owner = Claimed(i, "owner")
        /\ CostKey(processed[i]).environment = Claimed(i, "environment")
        /\ CostKey(processed[i]).cluster = Claimed(i, "cluster")
    /\ \A i, j \in 1..Len(processed) :
        (/\ LabelsOf(i) = Missing(varied)
         /\ LabelsOf(j) = Emptied(varied)) =>
            /\ CostKey(processed[i]) = CostKey(processed[j])
            /\ aggregated[CostKey(processed[i])].listCost =
                   SumOver(processed, CostKey(processed[j]), "listCost")
    /\ \A i \in Sent("costTotal") :
        /\ Len(ch[i].labels) = 10
        /\ ~ch[i].panic
        /\ \E key \in DOMAIN aggregated : SubSeq(ch[i].labels, 8, 10) =
               <<key.owner, key.environment, key.cluster>>

\* an item without the label owner and an item whose owner is empty were
\* aggregated into one entry, list costs 4 and 1 added, and its five cost
\* metrics were sent with ten label values, the owner empty
C34_Witness ==
    /\ apc = "done"
    /\ varied = "owner"
    /\ Len(processed) = 2
    /\ \E i, j \in 1..2 :
          /\ "owner" \notin DOMAIN LabelsOf(i)
          /\ "owner" \in DOMAIN LabelsOf(j) /\ LabelsOf(j).owner = ""
    /\ Cardinality(DOMAIN aggregated) = 1
    /\ \A key \in DOMAIN aggregated :
          key.owner = "" /\ aggregated[key].listCost = FAdd(4, 1)
    /\ Cardinality(Sent("costTotal")) = 5
    /\ \A i \in Sent("costTotal") :
          Len(ch[i].labels) = 10 /\ ch[i].labels[8] = "" /\ ch[i].labels[9] = "prod"

\* --------------------------------------- claims about duplicate series

\* C35: no two metrics sent to ch in one emitCostMetrics call have the same
\* descriptor and the same label values, the Kubernetes percent metrics
\* included.
C35_NoDuplicateSeries ==
    \A i, j \in 1..Len(ch) :
        (ch[i].desc = ch[j].desc /\ ch[i].labels = ch[j].labels) => i = j

\* ------------------------------------- claims about the order of Sets

\* C38: when a Set replaces the snapshot in the cache, the fetch that
\* returned the new snapshot was started after the fetch that returned the
\* one replaced (snapshots are numbered in the order their fetches started).
C38_SetsInFetchOrder ==
    [][(cache.data # Nil /\ cache'.data # cache.data) => cache'.data > cache.data]_vars

\* ------------------------------------------- scrapes arriving together

\* every scraper has called Collect on the empty cache and waits for c.mu
InitBurst ==
    /\ ttl \in 0..MaxTtl
    /\ maxStale \in 0..MaxStaleWindow
    /\ now = StartTime
    /\ cache = [data |-> Nil, fetchedAt |-> ZeroTime, hits |-> 0, misses |-> 0]
    /\ cacheMu = Nil
    /\ mu = Nil
    /\ refreshing = FALSE
    /\ metrics = [scrapeErrors |-> 0, cacheHits |-> 0, cacheMisses |-> 0,
                  cacheAge |-> 0, lastSuccessfulScrape |-> ZeroTime]
    /\ pc = [t \in Threads |-> IF t \in Scrapers THEN "lock" ELSE "free"]
    /\ got = [s \in Scrapers |-> Miss]
    /\ fetch = [t \in Threads |-> Nil]
    /\ sawRefreshing = [s \in Scrapers |-> FALSE]
    /\ seen = [s \in Scrapers |-> NotRead]
    /\ last = [data |-> Nil, ok |-> FALSE, isStale |-> FALSE, sawRefreshing |-> FALSE]
    /\ stampOf = [i \in 1..MaxScrapes |-> ZeroTime]
    /\ fetchesStarted = 0
    /\ scrapesStarted = NumScrapers
    /\ NoCacheCalls
    /\ NoClientCall
    /\ NoAggregation

SpecBurst == InitBurst /\ [][Next]_vars

\* the scrapers inside fetchAndCache
SyncFetching ==
    {s \in Scrapers : pc[s] \in {"call", "fetching", "setlock", "setdata", "setstamp"}}

\* the scrapers between c.mu.Lock() and the return of Collect
InCollect == {s \in Scrapers : pc[s] \notin {"idle", "lock"}}

\* the scrapes that arrived together have returned, no other has arrived,
\* and the first fetch succeeded
BurstServed ==
    /\ Settled
    /\ scrapesStarted = NumScrapers
    /\ stampOf[1] # ZeroTime

\* C36 as claimed: the scrapes are serialized, and once the scrapes that
\* arrived together on the empty cache have returned, the first of them
\* having fetched successfully, one fetch has been made and all the others
\* were fresh hits.
C36_OneFetchRestFresh ==
    /\ Cardinality(InCollect) <= 1
    /\ Cardinality(SyncFetching) <= 1
    /\ BurstServed =>
           /\ fetchesStarted = 1
           /\ cache.hits = NumScrapers - 1
           /\ cache.misses = 1

\* C36 as it holds: the same, for scrapes that have all returned within ttl
\* of the Set of the first fetch.
C36_OneFetchRestFreshWithinTtl ==
    /\ Cardinality(InCollect) <= 1
    /\ Cardinality(SyncFetching) <= 1
    /\ \A s \in SyncFetching : mu = s
    /\ (BurstServed /\ now - stampOf[1] <= ttl) =>
           /\ fetchesStarted = 1
           /\ cache.hits = NumScrapers - 1
           /\ cache.misses = 1
           /\ metrics.cacheHits = NumScrapers - 1
           /\ ~refreshing
           /\ last.ok /\ ~last.isStale /\ last.data = 1

\* every scrape of the burst has returned within ttl of the first one's Set:
\* one fetch, one miss, the rest fresh hits
C36_Witness ==
    /\ BurstServed
    /\ now - stampOf[1] <= ttl
    /\ fetchesStarted = 1
    /\ cache.hits = NumScrapers - 1
    /\ last.ok /\ ~last.isStale

\* ------------------------------------------ claims about the counters

\* the snapshots a Set has put into the cache
SetsDone == {i \in 1..MaxScrapes : stampOf[i] # ZeroTime}

\* the Collect calls that have not called Get yet
AwaitingGet == {s \in Scrapers : pc[s] \in {"lock", "get"}}

\* the fetchAndCache calls whose fetch succeeded and whose Set is not over
PendingSet == {t \in Threads : pc[t] \in {"setlock", "setdata", "setstamp"}}

\* C37: the collector's cacheHits and cacheMisses equal the hits and misses
\* of the cache's Stats, and together the number of Collect calls that have
\* called Get; every FetchCloudCosts call started is still running, or
\* failed and is counted in scrapeErrors, or succeeded and has its Set done
\* or under way, so that with nothing running hits plus misses is the
\* number of scrapes and scrapeErrors plus the number of Sets is the number
\* of fetches.
C37_CountersMatchEvents ==
    /\ metrics.cacheHits = cache.hits
    /\ metrics.cacheMisses = cache.misses
    /\ metrics.cacheHits + metrics.cacheMisses =
           scrapesStarted - Cardinality(AwaitingGet)
    /\ fetchesStarted =
           metrics.scrapeErrors + Cardinality(SetsDone)
           + Cardinality(PendingSet) + Cardinality(Fetching)
    /\ Settled =>
           /\ cache.hits + cache.misses = scrapesStarted
           /\ metrics.scrapeErrors + Cardinality(SetsDone) = fetchesStarted

\* three scrapes have returned: the first missed and its fetch failed, the
\* second missed and filled the cache, the third read it stale and its
\* refresh failed
C37_Witness ==
    /\ Settled
    /\ scrapesStarted = 3
    /\ fetchesStarted = 3
    /\ metrics.cacheHits = 1 /\ metrics.cacheMisses = 2
    /\ metrics.scrapeErrors = 2
    /\ SetsDone = {2}
    /\ last.ok /\ last.isStale

\* ------------------------------------------- Collect, from end to end

\* Collect without c.lastSuccessfulScrape.Collect(ch)
SelfNamesShort ==
    <<"scrapeDuration", "scrapeErrors", "cacheHits", "cacheMisses", "cacheAge">>

\* the self-observability metrics in the order Collect sends them
SelfNames ==
    <<"scrapeDuration", "scrapeErrors", "cacheHits", "cacheMisses", "cacheAge",
      "lastSuccessfulScrape">>

\* c.scrapeDuration.Collect(ch) ... c.lastSuccessfulScrape.Collect(ch), with
\* the values m of the collectors (scrapeDuration is a histogram, of which
\* only the presence is followed)
SelfMetrics(m) ==
    [i \in 1..Len(SelfNames) |->
        [desc |-> SelfNames[i],
         value |-> IF SelfNames[i] = "scrapeDuration" THEN 0 ELSE m[SelfNames[i]],
         labels |-> <<>>, panic |-> FALSE]]

\* a Collect call is between `if data == nil` and its return
Emitting == \E s \in Scrapers : pc[s] = "fx"

\* Collect: cacheAge.Set(c.cache.Age()), the six self-observability metrics
\* sent to the ch of this call, then `if data == nil { return }`
CollectSelfMetrics(s) ==
    /\ pc[s] = "age"
    /\ CanEmit(s)
    /\ metrics' = [metrics EXCEPT !.cacheAge = Age(cache, now)]
    /\ ch' = SelfMetrics(metrics')
    /\ IF got[s].data = Nil
       THEN Return(s)
       ELSE /\ pc' = [pc EXCEPT ![s] = "fx"]
            /\ UNCHANGED <<mu, got, fetch, ghost>>
    /\ UNCHANGED <<config, cacheApi, clientCall, health, now, cache, cacheMu,
                   refreshing, stampOf, fetchesStarted, scrapesStarted, snapshot,
                   varied, apc, setIdx, todo, aggregated, processed, previous,
                   emitKubePercentMetrics, fx>>

\* Collect: emitExchangeRates has returned, and Collect does; the locals of
\* emitCostMetrics are gone
CollectEnd(s) ==
    /\ pc[s] = "fx"
    /\ apc = "returned"
    /\ Return(s)
    /\ apc' = "idle"
    /\ setIdx' = 0
    /\ todo' = {}
    /\ aggregated' = NoEntries
    /\ processed' = <<>>
    /\ UNCHANGED <<config, cacheApi, clientCall, health, now, cache, cacheMu,
                   refreshing, metrics, stampOf, fetchesStarted, scrapesStarted,
                   snapshot, varied, emission>>

\* the snapshots OpenCost answers with: no set, one set of one item, one set
\* of two items that differ in the label owner
ScrapeSnapshots ==
    LET one == CloudCostItem(BaseProperties, <<4, 3, 2, 1, 0>>, 1)
        other == CloudCostItem(OtherProperties("owner"), <<2, 1, 2, 1, 2>>, 1)
    IN  {<<>>, <<[n \in {"a"} |-> one]>>,
         <<[n \in ItemNames |-> IF n = "a" THEN one ELSE other]>>}

\* cache.New and collector.New with the Kubernetes percent metric enabled,
\* with currency symbols configured or not; every fetch that succeeds
\* returns the same snapshot
InitScrape ==
    /\ ttl \in 0..MaxTtl
    /\ maxStale \in 0..MaxStaleWindow
    /\ CollectorIdle
    /\ NoCacheCalls
    /\ NoClientCall
    /\ NoProbe
    /\ varied = "owner"
    /\ snapshot \in ScrapeSnapshots
    /\ apc = "idle"
    /\ setIdx = 0
    /\ todo = {}
    /\ aggregated = NoEntries
    /\ processed = <<>>
    /\ ch = <<>>
    /\ previous = NoPass
    /\ emitKubePercentMetrics = TRUE
    /\ \E symbols \in SymbolLists : fx = NoRates(symbols)

\* c.mu lets one Collect call run at a time, from its first statement to
\* its return: the calls of concurrent scrapers are the calls of this one,
\* one after the other
Scraper == CHOOSE s \in Scrapers : \A t \in Scrapers : s <= t

NextScrape ==
    \/ scrapesStarted < MaxEmitScrapes /\ CollectCall(Scraper)
    \/ CollectLock(Scraper)
    \/ CollectGet(Scraper)
    \/ \E t \in Goroutines \cup {Scraper} : FetchStart(t)
    \/ \E t \in Goroutines \cup {Scraper} : FetchFail(t)
    \/ \E t \in Goroutines \cup {Scraper} : FetchOk(t)
    \/ \E t \in Goroutines \cup {Scraper} : SetLock(t)
    \/ \E t \in Goroutines \cup {Scraper} : SetData(t)
    \/ \E t \in Goroutines \cup {Scraper} : SetStamp(t)
    \/ CollectSelfMetrics(Scraper)
    \/ Emitting /\ EmitCostMetrics
    \/ AggregateSet
    \/ AggregateItem
    \/ AggregateDone
    \/ EmitKey
    \/ EmitReturn
    \/ ExchangeRatesNone
    \/ ExchangeRatesFail
    \/ ExchangeRatesOk
    \/ CollectEnd(Scraper)
    \/ \E g \in Goroutines : ClearRefreshing(g)
    \/ Tick

\* scrapes one after the other and their refreshes, with everything a
\* Collect call sends to ch
SpecScrape == InitScrape /\ [][NextScrape]_vars

\* --------------------------------- claims about what a scrape sends

\* C31: once the Collect calls made so far have returned, FetchExchangeRates
\* has been called once for each of them if currency symbols are
\* configured, and never if none is.
C31_RatesFetchedEveryScrape ==
    pc[Scraper] = "idle" =>
        fx.calls = (IF fx.symbols = {} THEN 0 ELSE scrapesStarted)

\* the descriptors of the metrics emitCostMetrics and emitExchangeRates send
CostDescs == {"costTotal", "kubePercent", "exchangeRate"}

\* C39: every Collect call, whatever Get returned and however the fetch
\* ended, sends scrapeDuration, scrapeErrors, cacheHits, cacheMisses,
\* cacheAge and lastSuccessfulScrape, in this order and with the values the
\* collectors have then, before anything else; whatever else it sends comes
\* after these six; a call that has no snapshot returns having sent these
\* six and nothing more; lastSuccessfulScrape changes only in the step that
\* ends the Set of a fetch that succeeded.
C39_SelfMetricsAlwaysFirst ==
    /\ [][\A s \in Scrapers : (pc[s] = "age" /\ pc'[s] # "age") =>
              /\ Len(ch') = 6
              /\ \A i \in 1..6 : ch'[i].desc = SelfNames[i]
              /\ ch'[2].value = metrics.scrapeErrors
              /\ ch'[3].value = metrics.cacheHits
              /\ ch'[4].value = metrics.cacheMisses
              /\ ch'[5].value = Age(cache, now)
              /\ ch'[6].value = metrics.lastSuccessfulScrape
              /\ pc'[s] = "idle" <=> got[s].data = Nil]_vars
    /\ [](ch # <<>> =>
              /\ Len(ch) >= 6
              /\ \A i \in 1..Len(ch) :
                     IF i <= 6 THEN ch[i].desc = SelfNames[i]
                     ELSE ch[i].desc \in CostDescs)
    /\ [][\A s \in Scrapers :
              (pc[s] # "idle" /\ pc'[s] = "idle" /\ got[s].data = Nil) =>
                  /\ Len(ch') = 6
                  /\ \A i \in 1..6 : ch'[i].desc \notin CostDescs
                  /\ fx' = fx]_vars
    /\ [][metrics'.lastSuccessfulScrape # metrics.lastSuccessfulScrape =>
              \E t \in Threads :
                  /\ pc[t] = "setstamp" /\ pc'[t] # "setstamp"
                  /\ cache'.data = fetch[t]
                  /\ metrics'.lastSuccessfulScrape = now]_vars

\* the first scrape filled the cache and sent cost metrics; the second found
\* the entry expired, its fetch failed, and it has returned having sent the
\* six self-observability metrics only, the error counted among them
C39_Witness ==
    /\ pc[Scraper] = "idle"
    /\ scrapesStarted = 2
    /\ cache.data = 1
    /\ metrics.lastSuccessfulScrape # ZeroTime
    /\ metrics.scrapeErrors = 1
    /\ last.data = Nil /\ ~last.ok
    /\ Len(ch) = 6
    /\ ch[2].value = 1 /\ ch[4].value = 2

====
